---- MODULE Spec2Model ----
(***************************************************************************)
(* Code Block Extractor (js/app.js): the extraction engine (CodeBlock,     *)
(* CodeExtractor) and the batch driver of the web page (CodeExtractorApp). *)
(* Text is a sequence of one-character strings; every scanner, trim,       *)
(* split, regular expression and the hash work on those characters.        *)
(***************************************************************************)
EXTENDS Integers, Sequences, FiniteSets, TLC

VARIABLES
    stats,              \* CodeExtractor.stats of the one extractor
    doc,                \* the text handed to a direct extractCodeBlocks call
    blocksRet,          \* what that call returned
    fileRet,            \* the last processFile call of a sequential caller
    lastBlocks,         \* per catalog text, the first direct extractCodeBlocks result
    selectedFiles,      \* CodeExtractorApp.selectedFiles, in insertion order
    extractionResults,  \* CodeExtractorApp.extractionResults
    runs,               \* the activations of CodeExtractorApp.processFiles
    outputName,         \* CodeExtractor.outputName of the one extractor
    statsRet            \* the object the caller's last getStats call returned

vars == <<stats, doc, blocksRet, fileRet, lastBlocks, selectedFiles, extractionResults, runs,
         outputName, statsRet>>

(* ------------------------------ characters ----------------------------- *)

\* The grave accent U+0060, which cannot be written inside a string.
BackTick == "GRAVE"

\* The printable ASCII characters in code order, U+0020 .. U+007E.
Ascii ==
    <<" ", "!", "\"", "#", "$", "%", "&", "'", "(", ")", "*", "+", ",", "-", ".", "/", "0", "1", "2", "3", "4", "5", "6", "7", "8", "9", ":", ";", "<", "=", ">", "?", "@", "A", "B", "C", "D", "E", "F", "G", "H", "I", "J", "K", "L", "M", "N", "O", "P", "Q", "R", "S", "T", "U", "V", "W", "X", "Y", "Z", "[", "\\", "]", "^", "_", BackTick, "a", "b", "c", "d", "e", "f", "g", "h", "i", "j", "k", "l", "m", "n", "o", "p", "q", "r", "s", "t", "u", "v", "w", "x", "y", "z", "{", "|", "}", "~">>

LowerChar == {Ascii[i] : i \in 66..91}
UpperChar == {Ascii[i] : i \in 34..59}
DigitChar == {Ascii[i] : i \in 17..26}

\* Every character a document of the model can contain.
Alphabet == {Ascii[i] : i \in 1..Len(Ascii)} \cup {"\n", "\t"}

\* \w, \s and . of the regular expressions, restricted to Alphabet.
WordChar == LowerChar \cup UpperChar \cup DigitChar \cup {"_"}
SpaceChar == {" ", "\t", "\n"}
DotChar == Alphabet \ {"\n"}

\* String.prototype.charCodeAt for the characters of Alphabet.
CharCode ==
    [c \in Alphabet |->
        IF c = "\n" THEN 10
        ELSE IF c = "\t" THEN 9
        ELSE 31 + (CHOOSE i \in 1..Len(Ascii) : Ascii[i] = c)]


(* -------------------------- string primitives -------------------------- *)

\* s.substring(a - 1, b) with 1-based inclusive bounds clipped to s.
Substring(s, a, b) ==
    IF a > b \/ a > Len(s) THEN <<>>
    ELSE SubSeq(s, a, IF b > Len(s) THEN Len(s) ELSE b)

\* Does lit occur in s starting at index i?
StartsWithAt(s, i, lit) ==
    /\ i >= 1
    /\ i + Len(lit) - 1 <= Len(s)
    /\ \A k \in 1..Len(lit) : s[i + k - 1] = lit[k]

\* String.prototype.includes
Includes(s, sub) ==
    \E i \in 1..(Len(s) - Len(sub) + 1) : StartsWithAt(s, i, sub)

\* Least element of a non-empty set of integers.
Min(set) == CHOOSE x \in set : \A y \in set : x <= y

\* Length of the longest run of characters of set in s from index i on.
RunLen(s, i, set) ==
    CHOOSE n \in 0..(Len(s) - i + 1) :
        /\ \A k \in 0..(n - 1) : s[i + k] \in set
        /\ i + n > Len(s) \/ s[i + n] \notin set

\* Length of the longest run of characters of set in s that ends at index i.
RunLenBack(s, i, set) ==
    CHOOSE n \in 0..i :
        /\ \A k \in 0..(n - 1) : s[i - k] \in set
        /\ n = i \/ s[i - n] \notin set

\* String.prototype.trim
Trim(s) ==
    LET a == 1 + RunLen(s, 1, SpaceChar)
        b == Len(s) - RunLenBack(s, Len(s), SpaceChar)
    IN  IF a > b THEN <<>> ELSE SubSeq(s, a, b)

\* String.prototype.split("\n"): the text between consecutive newlines.
SplitLines(s) ==
    LET nl == {i \in 1..Len(s) : s[i] = "\n"}
        Nth(n) == CHOOSE i \in nl : Cardinality({j \in nl : j < i}) = n - 1
        k == Cardinality(nl)
    IN  [n \in 1..(k + 1) |->
            Substring(s, IF n = 1 THEN 1 ELSE Nth(n - 1) + 1,
                         IF n = k + 1 THEN Len(s) ELSE Nth(n) - 1)]

\* Array.prototype.join("\n")
RECURSIVE JoinLines(_)
JoinLines(ls) ==
    IF Len(ls) = 0 THEN <<>>
    ELSE IF Len(ls) = 1 THEN ls[1]
    ELSE ls[1] \o <<"\n">> \o JoinLines(Tail(ls))

(* -------------------------- regular expressions ------------------------ *)
(* A pattern is a sequence of alternatives; an alternative is a sequence   *)
(* of items; an item is a character class with a quantifier or an anchor.  *)

One(set)  == [k |-> "c", set |-> set, q |-> "1"]
Opt(set)  == [k |-> "c", set |-> set, q |-> "?"]
Star(set) == [k |-> "c", set |-> set, q |-> "*"]
Plus(set) == [k |-> "c", set |-> set, q |-> "+"]
Bol  == [k |-> "bol"]   \* ^ without the m flag
BolM == [k |-> "bolm"]  \* ^ with the m flag
EolM == [k |-> "eolm"]  \* $ with the m flag
Eol  == [k |-> "eol"]   \* $ without the m flag
Lit(str) == [i \in 1..Len(str) |-> One({str[i]})]

\* Can items k.. of alternative alt match s from index i (backtracking)?
RECURSIVE MatchAt(_, _, _, _)
MatchAt(alt, k, s, i) ==
    IF k > Len(alt) THEN TRUE
    ELSE LET it == alt[k] IN
         CASE it.k = "bol"  -> i = 1 /\ MatchAt(alt, k + 1, s, i)
           [] it.k = "eol"  -> i = Len(s) + 1 /\ MatchAt(alt, k + 1, s, i)
           [] it.k = "bolm" -> (i = 1 \/ s[i - 1] = "\n") /\ MatchAt(alt, k + 1, s, i)
           [] it.k = "eolm" -> (i = Len(s) + 1 \/ s[i] = "\n") /\ MatchAt(alt, k + 1, s, i)
           [] it.k = "c" ->
                IF it.q = "1"
                THEN i <= Len(s) /\ s[i] \in it.set /\ MatchAt(alt, k + 1, s, i + 1)
                ELSE IF it.q = "?"
                THEN \/ (i <= Len(s) /\ s[i] \in it.set /\ MatchAt(alt, k + 1, s, i + 1))
                     \/ MatchAt(alt, k + 1, s, i)
                ELSE LET run == RunLen(s, i, it.set)
                         lo == IF it.q = "+" THEN 1 ELSE 0
                     IN  \E n \in lo..run : MatchAt(alt, k + 1, s, i + n)

\* RegExp.prototype.test for a pattern without the g flag
Test(pattern, s) ==
    \E a \in 1..Len(pattern) : \E i \in 1..(Len(s) + 1) : MatchAt(pattern[a], 1, s, i)


(* ------------------------------- CodeBlock ----------------------------- *)

\* The patterns table of detectLanguage, in insertion order.
LanguagePatterns == <<
    [lang |-> <<"p", "y", "t", "h", "o", "n">>, patternList |-> <<
        \* /def\s+\w+\(/
        <<Lit(<<"d", "e", "f">>) \o <<Plus(SpaceChar), Plus(WordChar)>> \o Lit(<<"(">>)>>,
        \* /import\s+\w+/
        <<Lit(<<"i", "m", "p", "o", "r", "t">>) \o <<Plus(SpaceChar), Plus(WordChar)>>>>,
        \* /from\s+\w+\s+import/
        <<Lit(<<"f", "r", "o", "m">>) \o <<Plus(SpaceChar), Plus(WordChar), Plus(SpaceChar)>> \o Lit(<<"i", "m", "p", "o", "r", "t">>)>>,
        \* /print\s*\(/
        <<Lit(<<"p", "r", "i", "n", "t">>) \o <<Star(SpaceChar)>> \o Lit(<<"(">>)>>,
        \* /class\s+\w+/
        <<Lit(<<"c", "l", "a", "s", "s">>) \o <<Plus(SpaceChar), Plus(WordChar)>>>>
    >>],
    [lang |-> <<"j", "a", "v", "a", "s", "c", "r", "i", "p", "t">>, patternList |-> <<
        \* /function\s+\w+\(/
        <<Lit(<<"f", "u", "n", "c", "t", "i", "o", "n">>) \o <<Plus(SpaceChar), Plus(WordChar)>> \o Lit(<<"(">>)>>,
        \* /const\s+\w+\s*=/
        <<Lit(<<"c", "o", "n", "s", "t">>) \o <<Plus(SpaceChar), Plus(WordChar), Star(SpaceChar)>> \o Lit(<<"=">>)>>,
        \* /let\s+\w+\s*=/
        <<Lit(<<"l", "e", "t">>) \o <<Plus(SpaceChar), Plus(WordChar), Star(SpaceChar)>> \o Lit(<<"=">>)>>,
        \* /console\.log\(/
        <<Lit(<<"c", "o", "n", "s", "o", "l", "e", ".", "l", "o", "g", "(">>)>>,
        \* /document\./
        <<Lit(<<"d", "o", "c", "u", "m", "e", "n", "t", ".">>)>>
    >>],
    [lang |-> <<"j", "a", "v", "a">>, patternList |-> <<
        \* /public\s+class\s+\w+/
        <<Lit(<<"p", "u", "b", "l", "i", "c">>) \o <<Plus(SpaceChar)>> \o Lit(<<"c", "l", "a", "s", "s">>) \o <<Plus(SpaceChar), Plus(WordChar)>>>>,
        \* /public\s+static\s+void\s+main/
        <<Lit(<<"p", "u", "b", "l", "i", "c">>) \o <<Plus(SpaceChar)>> \o Lit(<<"s", "t", "a", "t", "i", "c">>) \o <<Plus(SpaceChar)>> \o Lit(<<"v", "o", "i", "d">>) \o <<Plus(SpaceChar)>> \o Lit(<<"m", "a", "i", "n">>)>>,
        \* /System\.out\.print/
        <<Lit(<<"S", "y", "s", "t", "e", "m", ".", "o", "u", "t", ".", "p", "r", "i", "n", "t">>)>>
    >>],
    [lang |-> <<"c">>, patternList |-> <<
        \* /#include\s*</
        <<Lit(<<"#", "i", "n", "c", "l", "u", "d", "e">>) \o <<Star(SpaceChar)>> \o Lit(<<"<">>)>>,
        \* /int\s+main\s*\(/
        <<Lit(<<"i", "n", "t">>) \o <<Plus(SpaceChar)>> \o Lit(<<"m", "a", "i", "n">>) \o <<Star(SpaceChar)>> \o Lit(<<"(">>)>>,
        \* /printf\s*\(/
        <<Lit(<<"p", "r", "i", "n", "t", "f">>) \o <<Star(SpaceChar)>> \o Lit(<<"(">>)>>
    >>],
    [lang |-> <<"c", "p", "p">>, patternList |-> <<
        \* /#include\s*</
        <<Lit(<<"#", "i", "n", "c", "l", "u", "d", "e">>) \o <<Star(SpaceChar)>> \o Lit(<<"<">>)>>,
        \* /std::/
        <<Lit(<<"s", "t", "d", ":", ":">>)>>,
        \* /cout\s*<</
        <<Lit(<<"c", "o", "u", "t">>) \o <<Star(SpaceChar)>> \o Lit(<<"<", "<">>)>>
    >>],
    [lang |-> <<"h", "t", "m", "l">>, patternList |-> <<
        \* /<html/
        <<Lit(<<"<", "h", "t", "m", "l">>)>>,
        \* /<div/
        <<Lit(<<"<", "d", "i", "v">>)>>,
        \* /<body/
        <<Lit(<<"<", "b", "o", "d", "y">>)>>,
        \* /<!DOCTYPE/
        <<Lit(<<"<", "!", "D", "O", "C", "T", "Y", "P", "E">>)>>
    >>],
    [lang |-> <<"c", "s", "s">>, patternList |-> <<
        \* /\w+\s*\{[^}]*\}/
        <<<<Plus(WordChar), Star(SpaceChar)>> \o Lit(<<"{">>) \o <<Star(Alphabet \ ({"}"}))>> \o Lit(<<"}">>)>>,
        \* /@media/
        <<Lit(<<"@", "m", "e", "d", "i", "a">>)>>,
        \* /\.[\w-]+\s*\{/
        <<Lit(<<".">>) \o <<Plus(WordChar \cup {"-"}), Star(SpaceChar)>> \o Lit(<<"{">>)>>
    >>],
    [lang |-> <<"s", "q", "l">>, patternList |-> <<
        \* /SELECT\s+/i
        <<<<One({"s", "S"}), One({"e", "E"}), One({"l", "L"}), One({"e", "E"}), One({"c", "C"}), One({"t", "T"}), Plus(SpaceChar)>>>>,
        \* /FROM\s+/i
        <<<<One({"f", "F"}), One({"r", "R"}), One({"o", "O"}), One({"m", "M"}), Plus(SpaceChar)>>>>,
        \* /WHERE\s+/i
        <<<<One({"w", "W"}), One({"h", "H"}), One({"e", "E"}), One({"r", "R"}), One({"e", "E"}), Plus(SpaceChar)>>>>,
        \* /INSERT\s+INTO/i
        <<<<One({"i", "I"}), One({"n", "N"}), One({"s", "S"}), One({"e", "E"}), One({"r", "R"}), One({"t", "T"}), Plus(SpaceChar), One({"i", "I"}), One({"n", "N"}), One({"t", "T"}), One({"o", "O"})>>>>
    >>],
    [lang |-> <<"b", "a", "s", "h">>, patternList |-> <<
        \* /#!/bin\/bash/ in the source, where the unescaped slash ends the
        \* literal after #! and leaves bin as its flags; modelled as the
        \* pattern it is written to be, /#!\/bin\/bash/
        <<Lit(<<"#", "!", "/", "b", "i", "n", "/", "b", "a", "s", "h">>)>>,
        \* /echo\s+/
        <<Lit(<<"e", "c", "h", "o">>) \o <<Plus(SpaceChar)>>>>,
        \* /\$\w+/
        <<Lit(<<"$">>) \o <<Plus(WordChar)>>>>,
        \* /if\s*\[\s*/
        <<Lit(<<"i", "f">>) \o <<Star(SpaceChar)>> \o Lit(<<"[">>) \o <<Star(SpaceChar)>>>>
    >>],
    [lang |-> <<"d", "o", "c", "k", "e", "r", "f", "i", "l", "e">>, patternList |-> <<
        \* /FROM\s+\w+/
        <<Lit(<<"F", "R", "O", "M">>) \o <<Plus(SpaceChar), Plus(WordChar)>>>>,
        \* /RUN\s+/
        <<Lit(<<"R", "U", "N">>) \o <<Plus(SpaceChar)>>>>,
        \* /COPY\s+/
        <<Lit(<<"C", "O", "P", "Y">>) \o <<Plus(SpaceChar)>>>>,
        \* /WORKDIR\s+/
        <<Lit(<<"W", "O", "R", "K", "D", "I", "R">>) \o <<Plus(SpaceChar)>>>>,
        \* /EXPOSE\s+/
        <<Lit(<<"E", "X", "P", "O", "S", "E">>) \o <<Plus(SpaceChar)>>>>,
        \* /CMD\s*\[/
        <<Lit(<<"C", "M", "D">>) \o <<Star(SpaceChar)>> \o Lit(<<"[">>)>>
    >>],
    [lang |-> <<"j", "s", "o", "n">>, patternList |-> <<
        \* /^\s*\{/
        <<<<Bol, Star(SpaceChar)>> \o Lit(<<"{">>)>>,
        \* /^\s*\[/
        <<<<Bol, Star(SpaceChar)>> \o Lit(<<"[">>)>>,
        \* /"\w+":\s*/
        <<Lit(<<"\"">>) \o <<Plus(WordChar)>> \o Lit(<<"\"", ":">>) \o <<Star(SpaceChar)>>>>
    >>],
    [lang |-> <<"y", "a", "m", "l">>, patternList |-> <<
        \* /^\w+:/m
        <<<<BolM, Plus(WordChar)>> \o Lit(<<":">>)>>,
        \* /^\s*-\s+\w+/m
        <<<<BolM, Star(SpaceChar)>> \o Lit(<<"-">>) \o <<Plus(SpaceChar), Plus(WordChar)>>>>
    >>],
    [lang |-> <<"x", "m", "l">>, patternList |-> <<
        \* /<\?xml/
        <<Lit(<<"<", "?", "x", "m", "l">>)>>,
        \* /<\w+.*>.*<\/\w+>/
        <<Lit(<<"<">>) \o <<Plus(WordChar), Star(DotChar)>> \o Lit(<<">">>) \o <<Star(DotChar)>> \o Lit(<<"<", "/">>) \o <<Plus(WordChar)>> \o Lit(<<">">>)>>
    >>]
>>

\* The codePatterns array of looksLikeCode.
CodePatterns == <<
    \* /[a-zA-Z_]\w*\s*\(/  Function calls
    <<<<One(LowerChar \cup UpperChar \cup {"_"}), Star(WordChar), Star(SpaceChar)>> \o Lit(<<"(">>)>>,
    \* /[a-zA-Z_]\w*\s*=/  Variable assignments
    <<<<One(LowerChar \cup UpperChar \cup {"_"}), Star(WordChar), Star(SpaceChar)>> \o Lit(<<"=">>)>>,
    \* /\{[^}]*\}/  Braces
    <<Lit(<<"{">>) \o <<Star(Alphabet \ ({"}"}))>> \o Lit(<<"}">>)>>,
    \* /["\'][^"\']*["\']/  Quoted strings
    <<<<One({"\"", "'"}), Star(Alphabet \ ({"\"", "'"})), One({"\"", "'"})>>>>,
    \* /\/\/.*|\/\*.*\*\/|#.*/  Comments
    <<Lit(<<"/", "/">>) \o <<Star(DotChar)>>, Lit(<<"/", "*">>) \o <<Star(DotChar)>> \o Lit(<<"*", "/">>), Lit(<<"#">>) \o <<Star(DotChar)>>>>,
    \* /\w+\.\w+/  Method calls
    <<<<Plus(WordChar)>> \o Lit(<<".">>) \o <<Plus(WordChar)>>>>,
    \* /if\s*\(|while\s*\(|for\s*\(/  Control structures
    <<Lit(<<"i", "f">>) \o <<Star(SpaceChar)>> \o Lit(<<"(">>), Lit(<<"w", "h", "i", "l", "e">>) \o <<Star(SpaceChar)>> \o Lit(<<"(">>), Lit(<<"f", "o", "r">>) \o <<Star(SpaceChar)>> \o Lit(<<"(">>)>>,
    \* /<\/?\w+[^>]*>/  HTML tags
    <<Lit(<<"<">>) \o <<Opt({"/"}), Plus(WordChar), Star(Alphabet \ ({">"}))>> \o Lit(<<">">>)>>,
    \* /[a-zA-Z-]+:\s*[^;]+;/  CSS properties
    <<<<Plus(LowerChar \cup UpperChar \cup {"-"})>> \o Lit(<<":">>) \o <<Star(SpaceChar), Plus(Alphabet \ ({";"}))>> \o Lit(<<";">>)>>
>>

\* The fallback label of detectLanguage.
Txt == <<"t", "x", "t">>

\* A classifier that scores every language from index n on by the number
\* of its patterns that match and returns the best score, the earliest
\* language on a tie.
DetectFromMostMatches(content, n) ==
    LET score(k) == Cardinality({p \in 1..Len(LanguagePatterns[k].patternList) :
                                    Test(LanguagePatterns[k].patternList[p], content)})
        scored   == {k \in n..Len(LanguagePatterns) : score(k) > 0}
    IN  IF scored = {} THEN Txt
        ELSE LanguagePatterns[CHOOSE k \in scored :
                 \A j \in scored : score(j) < score(k) \/ (score(j) = score(k) /\ j >= k)].lang

\* detectLanguage: the first language, from index n on, one of whose
\* patterns matches.
RECURSIVE DetectFrom(_, _)
DetectFrom(content, n) ==
    IF n > Len(LanguagePatterns) THEN Txt
    ELSE LET entry == LanguagePatterns[n] IN
         IF \E p \in 1..Len(entry.patternList) : Test(entry.patternList[p], content)
         THEN entry.lang
         ELSE DetectFrom(content, n + 1)

\* A classifier that answers with the short name used in file extensions
\* (py, js, sh, ...) instead of the label.
DetectLanguageShortName(content) ==
    LET label == DetectFrom(content, 1)
    IN  IF label = <<"p", "y", "t", "h", "o", "n">> THEN <<"p", "y">>
        ELSE IF label = <<"j", "a", "v", "a", "s", "c", "r", "i", "p", "t">> THEN <<"j", "s">>
        ELSE IF label = <<"b", "a", "s", "h">> THEN <<"s", "h">>
        ELSE label

DetectLanguage(content) == DetectFrom(content, 1)

\* The extensions table of getFileExtension.
Extensions == <<
    [lang |-> <<"p", "y", "t", "h", "o", "n">>, ext |-> <<".", "p", "y">>],
    [lang |-> <<"j", "a", "v", "a", "s", "c", "r", "i", "p", "t">>, ext |-> <<".", "j", "s">>],
    [lang |-> <<"j", "a", "v", "a">>, ext |-> <<".", "j", "a", "v", "a">>],
    [lang |-> <<"c">>, ext |-> <<".", "c">>],
    [lang |-> <<"c", "p", "p">>, ext |-> <<".", "c", "p", "p">>],
    [lang |-> <<"h", "t", "m", "l">>, ext |-> <<".", "h", "t", "m", "l">>],
    [lang |-> <<"c", "s", "s">>, ext |-> <<".", "c", "s", "s">>],
    [lang |-> <<"s", "q", "l">>, ext |-> <<".", "s", "q", "l">>],
    [lang |-> <<"b", "a", "s", "h">>, ext |-> <<".", "s", "h">>],
    [lang |-> <<"d", "o", "c", "k", "e", "r", "f", "i", "l", "e">>, ext |-> <<".", "d", "o", "c", "k", "e", "r", "f", "i", "l", "e">>],
    [lang |-> <<"j", "s", "o", "n">>, ext |-> <<".", "j", "s", "o", "n">>],
    [lang |-> <<"y", "a", "m", "l">>, ext |-> <<".", "y", "m", "l">>],
    [lang |-> <<"x", "m", "l">>, ext |-> <<".", "x", "m", "l">>],
    [lang |-> <<"t", "x", "t">>, ext |-> <<".", "t", "x", "t">>]>>

\* getFileExtension: extensions[this.language] || ".txt"
GetFileExtension(language) ==
    LET hit == {n \in 1..Len(Extensions) : Extensions[n].lang = language}
    IN  IF hit = {} THEN <<".", "t", "x", "t">> ELSE Extensions[CHOOSE n \in hit : TRUE].ext

\* A step that adds the shifted accumulator instead of subtracting from
\* it: hash = ((hash << 5) + hash) + char, the multiplier 33.
HashStepShiftAdd(hash, char) ==
    LET lo  == hash % 65536
        hi  == hash \div 65536
        lo2 == 33 * lo + char
        hi2 == 33 * hi + (lo2 \div 65536)
        hiw == ((hi2 + 32768) % 65536) - 32768
    IN  hiw * 65536 + (lo2 % 65536)

\* One step of the hash loop on a signed 32-bit accumulator:
\* hash = ((hash << 5) - hash) + char; hash = hash & hash.
\* The product is formed on 16-bit halves so that it wraps like ToInt32.
HashStep(hash, char) ==
    LET lo  == hash % 65536
        hi  == hash \div 65536
        lo2 == 31 * lo + char
        hi2 == 31 * hi + (lo2 \div 65536)
        hiw == ((hi2 + 32768) % 65536) - 32768
    IN  hiw * 65536 + (lo2 % 65536)

Int32 == -2147483647 - 1 .. 2147483647

\* The for loop of generateHash over content[lo..hi], entered with hash.
\* The range is halved to keep the evaluation depth logarithmic; the
\* characters are consumed left to right, the left half being finished
\* (its value is tested) before the right half starts.
RECURSIVE HashLoop(_, _, _, _)
HashLoop(content, lo, hi, hash) ==
    IF lo > hi THEN hash
    ELSE IF lo = hi THEN HashStep(hash, CharCode[content[lo]])
    ELSE LET mid  == (lo + hi) \div 2
             left == HashLoop(content, lo, mid, hash)
         IN  IF left \in Int32
             THEN HashLoop(content, mid + 1, hi, left)
             ELSE left

HexDigits == <<"0", "1", "2", "3", "4", "5", "6", "7", "8", "9", "a", "b", "c", "d", "e", "f">>

\* Number.prototype.toString(16) of hi * 65536 + lo, 0 <= lo < 65536.
RECURSIVE ToHex(_)
ToHex(n) ==
    IF n < 16 THEN << HexDigits[n + 1] >>
    ELSE ToHex(n \div 16) \o << HexDigits[(n % 16) + 1] >>

\* String.prototype.padStart(width, "0")
RECURSIVE PadStart(_, _)
PadStart(s, width) ==
    IF Len(s) >= width THEN s ELSE PadStart(<<"0">> \o s, width)

\* Math.abs(hash).toString(16): the magnitude is rendered from its 16-bit
\* halves, since Math.abs(-2^31) = 2^31 exceeds the signed range.
AbsHex(hash) ==
    LET neg == hash < 0
        lo0 == hash % 65536
        hi0 == hash \div 65536
        lo  == IF neg THEN (65536 - lo0) % 65536 ELSE lo0
        hi  == IF neg THEN (IF lo0 = 0 THEN 0 - hi0 ELSE 0 - hi0 - 1) ELSE hi0
    IN  IF hi = 0 THEN ToHex(lo) ELSE ToHex(hi) \o PadStart(ToHex(lo), 4)

\* generateHash
GenerateHash(content) ==
    IF Len(content) = 0 THEN PadStart(ToHex(0), 8)
    ELSE Substring(PadStart(AbsHex(HashLoop(content, 1, Len(content), 0)), 8), 1, 8)

\* A constructor that lets the classifier overrule the label it is given.
CodeBlockClassifierFirst(content, language, startLine) ==
    LET trimmed  == Trim(content)
        detected == DetectLanguage(trimmed)
    IN  [content   |-> trimmed,
         language  |-> IF detected # Txt \/ language = <<>> THEN detected ELSE language,
         startLine |-> startLine,
         hash      |-> GenerateHash(trimmed)]

\* new CodeBlock(content, language, startLine); an absent language (null or
\* undefined) is the empty string, which is falsy as well.
CodeBlock(content, language, startLine) ==
    LET trimmed == Trim(content)
    IN  [content   |-> trimmed,
         language  |-> IF language # <<>> THEN language ELSE DetectLanguage(trimmed),
         startLine |-> startLine,
         hash      |-> GenerateHash(trimmed)]

(* ----------------------------- CodeExtractor --------------------------- *)

Fence == <<BackTick, BackTick, BackTick>>
FenceClose == <<"\n", BackTick, BackTick, BackTick>>

\* Minimum trimmed length a fenced span must exceed.
FencedMinLength == 20
\* Line count and trimmed length an indented run must exceed.
IndentedMinLines == 3
IndentedMinLength == 50
\* looksLikeCode: matches >= 2
CodePatternThreshold == 2
\* Overlap detection of extractCodeBlocks.
DedupWindow == 5
DedupPrefix == 100

NoMatch == [index |-> 0]

\* First index j >= i at which lit occurs in s, or 0.
IndexOfFrom(s, lit, i) ==
    LET hits == {j \in i..(Len(s) - Len(lit) + 1) : StartsWithAt(s, j, lit)}
    IN  IF hits = {} THEN 0 ELSE Min(hits)

\* A match of /```(\w+)?\n([\s\S]*?)\n```/ that starts exactly at index i:
\* the fence, the longest run of word characters (group 1, absent when
\* empty), a newline, the shortest text up to the next newline + fence.
FenceMatchAt(s, i) ==
    IF ~StartsWithAt(s, i, Fence) THEN NoMatch
    ELSE LET t == i + 3 + RunLen(s, i + 3, WordChar) IN
         IF ~(t <= Len(s) /\ s[t] = "\n") THEN NoMatch
         ELSE LET e == IndexOfFrom(s, FenceClose, t + 1) IN
              IF e = 0 THEN NoMatch
              ELSE [index     |-> i,
                    language  |-> Substring(s, i + 3, t - 1),
                    content   |-> Substring(s, t + 1, e - 1),
                    lastIndex |-> e + Len(FenceClose)]

\* pattern.exec(content) with the g flag: the leftmost match at or after
\* lastIndex.
FenceExec(s, lastIndex) ==
    LET starts == {i \in lastIndex..Len(s) : FenceMatchAt(s, i).index # 0}
    IN  IF starts = {} THEN NoMatch ELSE FenceMatchAt(s, Min(starts))

\* content.substring(0, match.index).split("\n").length
LineOfIndex(s, index) == Len(SplitLines(Substring(s, 1, index - 1)))

\* A while loop that keeps a span whose trimmed content has FencedMinLength
\* characters already.
RECURSIVE MarkdownLoopInclusive(_, _)
MarkdownLoopInclusive(content, lastIndex) ==
    LET match == FenceExec(content, lastIndex) IN
    IF match.index = 0 THEN <<>>
    ELSE LET codeContent == match.content
             startLine == LineOfIndex(content, match.index)
             kept == IF Len(Trim(codeContent)) > 0 /\ Len(Trim(codeContent)) >= FencedMinLength
                     THEN << CodeBlock(codeContent, match.language, startLine) >>
                     ELSE <<>>
         IN  kept \o MarkdownLoopInclusive(content, match.lastIndex)

\* The while loop of extractMarkdownCodeBlocks, resumed at lastIndex.
RECURSIVE MarkdownLoop(_, _)
MarkdownLoop(content, lastIndex) ==
    LET match == FenceExec(content, lastIndex) IN
    IF match.index = 0 THEN <<>>
    ELSE LET codeContent == match.content
             startLine == LineOfIndex(content, match.index)
             kept == IF Len(Trim(codeContent)) > 0 /\ Len(Trim(codeContent)) > FencedMinLength
                     THEN << CodeBlock(codeContent, match.language, startLine) >>
                     ELSE <<>>
         IN  kept \o MarkdownLoop(content, match.lastIndex)

ExtractMarkdownCodeBlocks(content) == MarkdownLoop(content, 1)

\* looksLikeCode
LooksLikeCode(content) ==
    Cardinality({p \in 1..Len(CodePatterns) : Test(CodePatterns[p], content)})
        >= CodePatternThreshold

\* /^(    |\t)/.test(line)
IsIndented(line) ==
    \/ StartsWithAt(line, 1, <<" ", " ", " ", " ">>)
    \/ StartsWithAt(line, 1, <<"\t">>)

\* A flush that accepts a run of IndentedMinLines lines already.
FlushRunThreeLines(currentBlock, currentStart) ==
    IF Len(currentBlock) > 0 /\ \E n \in 1..Len(currentBlock) : Trim(currentBlock[n]) # <<>>
    THEN LET blockContent == Trim(JoinLines(currentBlock)) IN
         IF /\ blockContent # <<>>
            /\ Len(currentBlock) >= IndentedMinLines
            /\ Len(blockContent) > IndentedMinLength
            /\ LooksLikeCode(blockContent)
         THEN << CodeBlock(blockContent, <<>>, currentStart) >>
         ELSE <<>>
    ELSE <<>>

\* The block, if any, that a finished run currentBlock starting at
\* currentStart contributes.
FlushRun(currentBlock, currentStart) ==
    IF Len(currentBlock) > 0 /\ \E n \in 1..Len(currentBlock) : Trim(currentBlock[n]) # <<>>
    THEN LET blockContent == Trim(JoinLines(currentBlock)) IN
         IF /\ blockContent # <<>>
            /\ Len(currentBlock) > IndentedMinLines
            /\ Len(blockContent) > IndentedMinLength
            /\ LooksLikeCode(blockContent)
         THEN << CodeBlock(blockContent, <<>>, currentStart) >>
         ELSE <<>>
    ELSE <<>>

\* A for loop that puts each finished run in front of the list.
RECURSIVE IndentedLoopNewestFirst(_, _, _, _)
IndentedLoopNewestFirst(lines, i, currentBlock, currentStart) ==
    IF i >= Len(lines) THEN FlushRun(currentBlock, currentStart)
    ELSE LET line == lines[i + 1] IN
         IF IsIndented(line) \/ (Trim(line) = <<>> /\ Len(currentBlock) > 0)
         THEN IndentedLoopNewestFirst(lines, i + 1, Append(currentBlock, line),
                                      IF Len(currentBlock) = 0 THEN i ELSE currentStart)
         ELSE IndentedLoopNewestFirst(lines, i + 1, <<>>, currentStart)
                  \o FlushRun(currentBlock, currentStart)

\* The for loop of extractIndentedCodeBlocks from the 0-based line i, and the
\* handling of the last block after it.
RECURSIVE IndentedLoop(_, _, _, _)
IndentedLoop(lines, i, currentBlock, currentStart) ==
    IF i >= Len(lines) THEN FlushRun(currentBlock, currentStart)
    ELSE LET line == lines[i + 1] IN
         IF IsIndented(line) \/ (Trim(line) = <<>> /\ Len(currentBlock) > 0)
         THEN IndentedLoop(lines, i + 1, Append(currentBlock, line),
                           IF Len(currentBlock) = 0 THEN i ELSE currentStart)
         ELSE FlushRun(currentBlock, currentStart)
                  \o IndentedLoop(lines, i + 1, <<>>, currentStart)

ExtractIndentedCodeBlocks(content) == IndentedLoop(SplitLines(content), 0, <<>>, 0)

Abs(n) == IF n < 0 THEN 0 - n ELSE n

\* An overlap test whose window includes a distance of DedupWindow itself.
IsDuplicateInclusive(indentedBlock, codeBlocks) ==
    \E n \in 1..Len(codeBlocks) :
        /\ Abs(indentedBlock.startLine - codeBlocks[n].startLine) <= DedupWindow
        /\ Includes(codeBlocks[n].content, Substring(indentedBlock.content, 1, DedupPrefix))

\* An overlap test that looks at the content only, however far apart the
\* two blocks start.
IsDuplicateContentOnly(indentedBlock, codeBlocks) ==
    \E n \in 1..Len(codeBlocks) :
        Includes(codeBlocks[n].content, Substring(indentedBlock.content, 1, DedupPrefix))

\* The overlap test of extractCodeBlocks.
IsDuplicate(indentedBlock, codeBlocks) ==
    \E n \in 1..Len(codeBlocks) :
        /\ Abs(indentedBlock.startLine - codeBlocks[n].startLine) < DedupWindow
        /\ Includes(codeBlocks[n].content, Substring(indentedBlock.content, 1, DedupPrefix))

\* The filter loop of extractCodeBlocks over indentedBlocks[n..].
RECURSIVE DedupLoop(_, _, _)
DedupLoop(codeBlocks, indentedBlocks, n) ==
    IF n > Len(indentedBlocks) THEN codeBlocks
    ELSE DedupLoop(IF IsDuplicate(indentedBlocks[n], codeBlocks)
                   THEN codeBlocks
                   ELSE Append(codeBlocks, indentedBlocks[n]),
                   indentedBlocks, n + 1)

\* An orchestrator that leaves out the blocks of a language the extractor
\* has already counted in its stats.
ExtractCodeBlocksNewLanguages(content) ==
    SelectSeq(DedupLoop(ExtractMarkdownCodeBlocks(content),
                        ExtractIndentedCodeBlocks(content), 1),
              LAMBDA b : \A n \in 1..Len(stats.languagesDetected) :
                             stats.languagesDetected[n] # b.language)

\* An orchestrator that returns the blocks in document order.
ExtractCodeBlocksInDocumentOrder(content) ==
    SortSeq(DedupLoop(ExtractMarkdownCodeBlocks(content),
                      ExtractIndentedCodeBlocks(content), 1),
            LAMBDA a, b : a.startLine < b.startLine)

ExtractCodeBlocks(content) ==
    DedupLoop(ExtractMarkdownCodeBlocks(content), ExtractIndentedCodeBlocks(content), 1)

\* A title pattern /^PREFIX\s+(.+)$/m or /^PREFIX\s*(.+)$/m, minSpace being
\* 1 or 0: group 1 of the match at line start i, or the empty string when
\* the pattern does not match there. The white-space run is taken as long
\* as it can be while a character other than a newline follows; group 1
\* then runs to the end of that line.
TitleMatchAt(s, i, prefix, minSpace) ==
    IF ~((i = 1 \/ s[i - 1] = "\n") /\ StartsWithAt(s, i, prefix)) THEN <<>>
    ELSE LET p    == i + Len(prefix)
             run  == RunLen(s, p, SpaceChar)
             fits == {n \in minSpace..run : p + n <= Len(s) /\ s[p + n] # "\n"}
         IN  IF fits = {} THEN <<>>
             ELSE LET n == CHOOSE x \in fits : \A y \in fits : y <= x
                  IN  Substring(s, p + n, p + n + RunLen(s, p + n, DotChar) - 1)

\* content.match(pattern): group 1 of the leftmost match, or the empty
\* string when there is none.
TitleMatch(s, prefix, minSpace) ==
    LET starts == {i \in 1..Len(s) : TitleMatchAt(s, i, prefix, minSpace) # <<>>}
    IN  IF starts = {} THEN <<>> ELSE TitleMatchAt(s, Min(starts), prefix, minSpace)

\* The titlePatterns array of generateTopicName.
TitlePatterns == <<
    [prefix |-> <<"#">>, minSpace |-> 1],
    [prefix |-> <<"#", "#">>, minSpace |-> 1],
    [prefix |-> <<"T", "i", "t", "l", "e", ":">>, minSpace |-> 0],
    [prefix |-> <<"S", "u", "b", "j", "e", "c", "t", ":">>, minSpace |-> 0]>>

\* Maximum length of a topic taken from the content.
TopicMaxLength == 50

\* str.replace(/[^\w\s-]/g, "")
StripNonWord(str) ==
    SelectSeq(str, LAMBDA c : c \in WordChar \cup SpaceChar \cup {"-"})

\* A replacement of every white-space character by an underscore of its
\* own: str.replace(/\s/g, "_").
SpacesToUnderscoreEach(str) ==
    [n \in 1..Len(str) |-> IF str[n] \in SpaceChar THEN "_" ELSE str[n]]

\* str.replace(/\s+/g, "_")
RECURSIVE SpacesToUnderscore(_)
SpacesToUnderscore(str) ==
    IF str = <<>> THEN <<>>
    ELSE IF Head(str) \in SpaceChar
         THEN <<"_">> \o SpacesToUnderscore(
                  Substring(str, 1 + RunLen(str, 1, SpaceChar), Len(str)))
         ELSE << Head(str) >> \o SpacesToUnderscore(Tail(str))

\* fileName.replace(/\.[^/.]+$/, "")
RemoveExtension(fileName) ==
    LET dots == {i \in 1..(Len(fileName) - 1) :
                    /\ fileName[i] = "."
                    /\ \A k \in (i + 1)..Len(fileName) : fileName[k] \notin {"/", "."}}
    IN  IF dots = {} THEN fileName ELSE Substring(fileName, 1, Min(dots) - 1)

UnknownTopic == <<"u", "n", "k", "n", "o", "w", "n", "_", "t", "o", "p", "i", "c">>

\* A pattern loop in which the match nearest to the top of the document
\* decides, whatever the position of its pattern in titlePatterns.
TopicFromDocumentOrder(fileName, content, n) ==
    LET start(k) == {i \in 1..Len(content) :
                        TitleMatchAt(content, i, TitlePatterns[k].prefix, TitlePatterns[k].minSpace) # <<>>}
        matched  == {k \in n..Len(TitlePatterns) : start(k) # {}}
    IN  IF matched = {}
        THEN IF RemoveExtension(fileName) # <<>> THEN RemoveExtension(fileName) ELSE UnknownTopic
        ELSE LET k == CHOOSE x \in matched : \A y \in matched :
                          Min(start(x)) < Min(start(y)) \/ (Min(start(x)) = Min(start(y)) /\ x <= y)
             IN  Substring(SpacesToUnderscore(Trim(StripNonWord(
                     TitleMatch(content, TitlePatterns[k].prefix, TitlePatterns[k].minSpace)))), 1, TopicMaxLength)

\* The pattern loop of generateTopicName from pattern n on, then the file
\* name fallback.
RECURSIVE TopicFrom(_, _, _)
TopicFrom(fileName, content, n) ==
    IF n > Len(TitlePatterns)
    THEN LET baseName == RemoveExtension(fileName)
         IN  IF baseName # <<>> THEN baseName ELSE UnknownTopic
    ELSE LET match1 == TitleMatch(content, TitlePatterns[n].prefix, TitlePatterns[n].minSpace)
         IN  IF match1 # <<>>
             THEN Substring(SpacesToUnderscore(Trim(StripNonWord(match1))), 1, TopicMaxLength)
             ELSE TopicFrom(fileName, content, n + 1)

GenerateTopicName(fileName, content) == TopicFrom(fileName, content, 1)

\* Number.prototype.toString() of a non-negative integer.
RECURSIVE ToDec(_)
ToDec(n) ==
    IF n < 10 THEN << HexDigits[n + 1] >>
    ELSE ToDec(n \div 10) \o << HexDigits[(n % 10) + 1] >>

\* Set.prototype.add on a Set kept as the sequence of its elements in
\* insertion order.
SetAdd(set, x) ==
    IF \E n \in 1..Len(set) : set[n] = x THEN set ELSE Append(set, x)

Range(seq) == {seq[n] : n \in 1..Len(seq)}

\* The stats object of the constructor and of reset.
EmptyStats ==
    [filesProcessed    |-> 0,
     codeBlocksFound   |-> 0,
     languagesDetected |-> <<>>,
     topicsCreated     |-> <<>>]

\* A template without the index of the block.
CodeFileNameNoIndex(index, codeBlock) ==
    <<"c", "o", "d", "e", "_">> \o codeBlock.language
        \o <<"_">> \o codeBlock.hash \o GetFileExtension(codeBlock.language)

\* A template that writes the label into every name, the fallback label
\* included.
CodeFileNameAlwaysLabelled(index, codeBlock) ==
    <<"c", "o", "d", "e", "_">> \o PadStart(ToDec(index), 2) \o <<"_">> \o codeBlock.language
        \o <<"_">> \o codeBlock.hash \o GetFileExtension(codeBlock.language)

\* The fileName template of processFile for the block at 1-based index.
CodeFileName(index, codeBlock) ==
    IF codeBlock.language # <<>> /\ codeBlock.language # Txt
    THEN <<"c", "o", "d", "e", "_">> \o PadStart(ToDec(index), 2) \o <<"_">> \o codeBlock.language
             \o <<"_">> \o codeBlock.hash \o GetFileExtension(codeBlock.language)
    ELSE <<"c", "o", "d", "e", "_">> \o PadStart(ToDec(index), 2) \o <<"_">> \o codeBlock.hash
             \o GetFileExtension(codeBlock.language)

\* The descriptor pushed on extractedFiles for codeBlocks[i] (index i + 1).
ExtractedFile(index, codeBlock) ==
    [fileName  |-> CodeFileName(index, codeBlock),
     content   |-> codeBlock.content,
     language  |-> codeBlock.language,
     lines     |-> Len(SplitLines(codeBlock.content)),
     hash      |-> codeBlock.hash,
     extension |-> GetFileExtension(codeBlock.language)]

\* A loop that puts each descriptor in front of the earlier ones.
ExtractedFilesUnshift(codeBlocks) ==
    [n \in 1..Len(codeBlocks) |->
        ExtractedFile(Len(codeBlocks) + 1 - n, codeBlocks[Len(codeBlocks) + 1 - n])]

\* extractedFiles after the for loop of processFile.
ExtractedFiles(codeBlocks) ==
    [n \in 1..Len(codeBlocks) |-> ExtractedFile(n, codeBlocks[n])]

\* languagesDetected after the for loop of processFile has added the
\* languages of codeBlocks[n..].
RECURSIVE AddLanguages(_, _, _)
AddLanguages(languagesDetected, codeBlocks, n) ==
    IF n > Len(codeBlocks) THEN languagesDetected
    ELSE AddLanguages(SetAdd(languagesDetected, codeBlocks[n].language), codeBlocks, n + 1)

\* The metadata object of processFile (processedAt, a timestamp that no
\* operation reads back, is left out).
Metadata(fileName, topicName, codeBlocks, extractedFiles) ==
    [sourceFile  |-> fileName,
     topic       |-> topicName,
     totalBlocks |-> Len(codeBlocks),
     codeFiles   |-> [n \in 1..Len(extractedFiles) |->
                        [fileName |-> extractedFiles[n].fileName,
                         language |-> extractedFiles[n].language,
                         lines    |-> extractedFiles[n].lines,
                         hash     |-> extractedFiles[n].hash]]]

NoBlocksMessage == "No code blocks found"
ReadErrorMessage == "Failed to read file"

\* The settled promise of readFileAsText: resolved with the text when
\* onload fires, rejected with an Error when onerror fires.
ReadLoaded(file) == [ok |-> TRUE, text |-> file.text]
ReadFailed == [ok |-> FALSE, message |-> ReadErrorMessage]

\* A tail that replaces the detected languages by those of this document.
ProcessResultOwnLanguages(stats0, fileName, topicName, codeBlocks, extractedFiles) ==
    [rejected   |-> FALSE,
     value      |-> [topic           |-> topicName,
                     blocksExtracted |-> Len(codeBlocks),
                     files           |-> extractedFiles,
                     metadata        |-> Metadata(fileName, topicName,
                                                  codeBlocks, extractedFiles)],
     stats      |-> [filesProcessed    |-> stats0.filesProcessed + 1,
                     codeBlocksFound   |-> stats0.codeBlocksFound + Len(codeBlocks),
                     languagesDetected |-> AddLanguages(<<>>, codeBlocks, 1),
                     topicsCreated     |-> SetAdd(stats0.topicsCreated, topicName)],
     codeBlocks |-> codeBlocks]

\* The tail of processFile once topicName and extractedFiles are computed:
\* the stats update and the returned object.
ProcessResult(stats0, fileName, topicName, codeBlocks, extractedFiles) ==
    [rejected   |-> FALSE,
     value      |-> [topic           |-> topicName,
                     blocksExtracted |-> Len(codeBlocks),
                     files           |-> extractedFiles,
                     metadata        |-> Metadata(fileName, topicName,
                                                  codeBlocks, extractedFiles)],
     stats      |-> [filesProcessed    |-> stats0.filesProcessed + 1,
                     codeBlocksFound   |-> stats0.codeBlocksFound + Len(codeBlocks),
                     languagesDetected |-> AddLanguages(stats0.languagesDetected,
                                                        codeBlocks, 1),
                     topicsCreated     |-> SetAdd(stats0.topicsCreated, topicName)],
     codeBlocks |-> codeBlocks]

\* A processFile that counts a document without blocks as processed.
ProcessBlocksCountsEmpty(stats0, fileName, content, codeBlocks) ==
    IF Len(codeBlocks) = 0
    THEN [rejected   |-> FALSE,
          value      |-> [message |-> NoBlocksMessage],
          stats      |-> [stats0 EXCEPT !.filesProcessed = @ + 1],
          codeBlocks |-> codeBlocks]
    ELSE ProcessResult(stats0, fileName, GenerateTopicName(fileName, content),
                       codeBlocks, ExtractedFiles(codeBlocks))

\* A processFile that records the topic before it looks at the block count.
ProcessBlocksTopicFirst(stats0, fileName, content, codeBlocks) ==
    IF Len(codeBlocks) = 0
    THEN [rejected   |-> FALSE,
          value      |-> [message |-> NoBlocksMessage],
          stats      |-> [stats0 EXCEPT !.topicsCreated =
                             SetAdd(@, GenerateTopicName(fileName, content))],
          codeBlocks |-> codeBlocks]
    ELSE ProcessResult(stats0, fileName, GenerateTopicName(fileName, content),
                       codeBlocks, ExtractedFiles(codeBlocks))

\* processFile from the codeBlocks of the content on: the early return on
\* an empty list, else the topic, the descriptors and the tail.
ProcessBlocks(stats0, fileName, content, codeBlocks) ==
    IF Len(codeBlocks) = 0
    THEN [rejected   |-> FALSE,
          value      |-> [message |-> NoBlocksMessage],
          stats      |-> stats0,
          codeBlocks |-> codeBlocks]
    ELSE ProcessResult(stats0, fileName, GenerateTopicName(fileName, content),
                       codeBlocks, ExtractedFiles(codeBlocks))

\* A processFile without its try/catch: the rejection of readFileAsText
\* becomes its own.
ProcessFileUncaught(stats0, file, read) ==
    IF ~read.ok
    THEN [rejected   |-> TRUE,
          value      |-> [error |-> <<read.message>>],
          stats      |-> stats0,
          codeBlocks |-> <<>>]
    ELSE ProcessBlocks(stats0, file.name, read.text, ExtractCodeBlocks(read.text))

\* processFile once readFileAsText has settled with read. The value is the
\* settlement of the promise processFile returns, the stats it leaves and
\* the codeBlocks it computed.
ProcessFile(stats0, file, read) ==
    IF ~read.ok
    THEN [rejected   |-> FALSE,
          value      |-> [error |-> <<"Failed to process file: ", read.message>>],
          stats      |-> stats0,
          codeBlocks |-> <<>>]
    ELSE ProcessBlocks(stats0, file.name, read.text, ExtractCodeBlocks(read.text))

(* ------------------------------- documents ----------------------------- *)

\* Lines that documents are built from.
PlainFence  == <<BackTick, BackTick, BackTick>>
TaggedFence == <<BackTick, BackTick, BackTick, "J", "S">>
CodeLine    == <<" ", " ", " ", " ", "p", "r", "i", "n", "t", "(", "x", ")", ";", " ", "y", " ", "=", " ", "a", ".", "b", ";", " ", "s", " ", "=", " ", "\"", "a", "b", "c", "d", "e", "f", "g", "h", "i", "j", "k", "l", "m", "n", "o", "p", "q", "r", "s", "t", "u", "v", "w", "x", "y", "\"", ";">>
BlankLine   == <<>>
ProseLine   == <<"S", "o", "m", "e", " ", "t", "e", "x", "t", ".">>

\* A document is a sequence of at most MaxChunks chunks: a fence line, a
\* code line, a code line with three blank lines after it, or a prose line.
MaxChunks == 4

Chunks ==
    { <<PlainFence>>, <<TaggedFence>>, <<CodeLine>>,
      <<CodeLine, BlankLine, BlankLine, BlankLine>>, <<ProseLine>> }

RECURSIVE Flatten(_)
Flatten(seqs) == IF seqs = <<>> THEN <<>> ELSE Head(seqs) \o Flatten(Tail(seqs))

Docs == { JoinLines(Flatten(cs)) : cs \in UNION {[1..n -> Chunks] : n \in 0..MaxChunks} }

\* The File objects the page and a sequential caller work with.
Catalog == <<
    [name |-> <<"n", "o", "t", "e", "s", ".", "m", "d">>,
     text |-> <<"#", " ", "S", "e", "t", "u", "p", " ", "N", "o", "t", "e", "s", "\n", " ", " ", " ", " ", "p", "r", "i", "n", "t", "(", "x", ")", ";", " ", "y", " ", "=", " ", "a", ".", "b", ";", " ", "s", " ", "=", " ", "\"", "a", "b", "c", "d", "e", "f", "g", "h", "i", "j", "k", "l", "m", "n", "o", "p", "q", "r", "s", "t", "u", "v", "w", "x", "y", "\"", ";", "\n", "\n", "\n", "\n", BackTick, BackTick, BackTick, "\n", " ", " ", " ", " ", "p", "r", "i", "n", "t", "(", "x", ")", ";", " ", "y", " ", "=", " ", "a", ".", "b", ";", " ", "s", " ", "=", " ", "\"", "a", "b", "c", "d", "e", "f", "g", "h", "i", "j", "k", "l", "m", "n", "o", "p", "q", "r", "s", "t", "u", "v", "w", "x", "y", "\"", ";", "\n", BackTick, BackTick, BackTick>>],
    [name |-> <<"e", "m", "p", "t", "y", ".", "l", "o", "g">>,
     text |-> <<"S", "o", "m", "e", " ", "t", "e", "x", "t", ".">>],
    [name |-> <<"q", "u", "e", "r", "y", ".", "t", "x", "t">>,
     text |-> <<BackTick, BackTick, BackTick, "J", "S", "\n", "S", "E", "L", "E", "C", "T", " ", "a", " ", "F", "R", "O", "M", " ", "t", " ", "W", "H", "E", "R", "E", " ", "a", " ", ">", " ", "1", ";", "\n", BackTick, BackTick, BackTick>>],
    [name |-> <<"m", "i", "x", "e", "d", ".", "m", "d">>,
     text |-> <<"#", "#", " ", "P", "a", "r", "t", " ", "T", "w", "o", "\n", BackTick, BackTick, BackTick, "\n", "S", "E", "L", "E", "C", "T", " ", "a", " ", "F", "R", "O", "M", " ", "t", " ", "W", "H", "E", "R", "E", " ", "a", " ", ">", " ", "1", ";", "\n", BackTick, BackTick, BackTick, "\n", "t", "e", "x", "t", "\n", BackTick, BackTick, BackTick, "J", "S", "\n", " ", " ", " ", " ", "p", "r", "i", "n", "t", "(", "x", ")", ";", " ", "y", " ", "=", " ", "a", ".", "b", ";", " ", "s", " ", "=", " ", "\"", "a", "b", "c", "d", "e", "f", "g", "h", "i", "j", "k", "l", "m", "n", "o", "p", "q", "r", "s", "t", "u", "v", "w", "x", "y", "\"", ";", "\n", BackTick, BackTick, BackTick, "\n">>],
    [name |-> <<"s", "y", "m", "b", "o", "l", "s", ".", "m", "d">>,
     text |-> <<"#", " ", "!", "!", "!", "\n", BackTick, BackTick, BackTick, "\n", "S", "E", "L", "E", "C", "T", " ", "a", " ", "F", "R", "O", "M", " ", "t", " ", "W", "H", "E", "R", "E", " ", "a", " ", ">", " ", "1", ";", "\n", BackTick, BackTick, BackTick>>]>>

\* A file the page refuses.
ImageFile == [name |-> <<"s", "h", "o", "t", ".", "P", "N", "G">>, text |-> <<>>]

(* --------------------- direct extractCodeBlocks call ------------------- *)

\* No getStats call yet.
NoStatsRet == [calls |-> 0, pushes |-> 0, value |-> [message |-> "no call yet"]]

NotCalled == [calls |-> 0, blocks |-> <<>>, stats |-> EmptyStats]
NoFileRet ==
    [calls |-> 0, file |-> 0, readOk |-> FALSE, rejected |-> FALSE,
     value |-> [message |-> "no call yet"]]
NoLastBlocks ==
    [f \in 1..Len(Catalog) |-> [calls |-> 0, blocks |-> <<>>, stats |-> EmptyStats]]
NoResults == [assigned |-> FALSE, results |-> <<>>]

\* The number of processFiles activations the model follows.
MaxRuns == 2

IdleRun == [pc |-> "idle", files |-> <<>>, results |-> <<>>, processed |-> 0]

\* The default of the outputName parameter of the CodeExtractor
\* constructor, also the value the outputName input falls back to.
DefaultOutputName == <<"e", "x", "t", "r", "a", "c", "t", "e", "d", "_", "c", "o", "d", "e">>

InitExtract ==
    /\ doc \in Docs
    /\ blocksRet = NotCalled
    /\ stats = EmptyStats
    /\ fileRet = NoFileRet
    /\ lastBlocks = NoLastBlocks
    /\ selectedFiles = <<>>
    /\ extractionResults = NoResults
    /\ runs = [r \in 1..MaxRuns |-> IdleRun]
    /\ outputName = DefaultOutputName
    /\ statsRet = NoStatsRet

\* extractor.extractCodeBlocks(doc)
ExtractCall ==
    /\ blocksRet.calls = 0
    /\ blocksRet' = [calls |-> 1, blocks |-> ExtractCodeBlocks(doc), stats |-> stats]
    /\ UNCHANGED <<stats, doc, fileRet, lastBlocks, selectedFiles, extractionResults, runs, outputName, statsRet>>

SpecExtract == InitExtract /\ [][ExtractCall]_vars

(* ------------------ one extractor, one sequential caller --------------- *)

\* The number of calls the caller makes.
MaxCalls == 3

\* The calls the caller has made on the extractor and on the object
\* getStats returned.
CallsMade == fileRet.calls + blocksRet.calls + statsRet.calls + statsRet.pushes

InitEngine ==
    /\ doc = <<>>
    /\ blocksRet = NotCalled
    /\ stats = EmptyStats
    /\ fileRet = NoFileRet
    /\ lastBlocks = NoLastBlocks
    /\ selectedFiles = <<>>
    /\ extractionResults = NoResults
    /\ runs = [r \in 1..MaxRuns |-> IdleRun]
    /\ outputName = DefaultOutputName
    /\ statsRet = NoStatsRet

\* await extractor.processFile(Catalog[f]), the read ending in onload
\* (readOk) or onerror; the caller awaits the call before its next one.
ProcessFileCall(f, readOk) ==
    /\ CallsMade < MaxCalls
    /\ LET ret == ProcessFile(stats, Catalog[f],
                              IF readOk THEN ReadLoaded(Catalog[f]) ELSE ReadFailed)
       IN  /\ stats' = ret.stats
           /\ fileRet' = [calls    |-> fileRet.calls + 1,
                          file     |-> f,
                          readOk   |-> readOk,
                          rejected |-> ret.rejected,
                          value    |-> ret.value]
    /\ UNCHANGED <<doc, blocksRet, lastBlocks, selectedFiles, extractionResults, runs, outputName, statsRet>>

\* extractor.extractCodeBlocks(Catalog[f].text). blocksRet keeps what the
\* call returned and the stats it ran under; lastBlocks[f] keeps the same
\* of the first call on this text, and counts the calls on it.
ExtractCallOn(f) ==
    /\ CallsMade < MaxCalls
    /\ doc' = Catalog[f].text
    /\ blocksRet' = [calls  |-> blocksRet.calls + 1,
                     blocks |-> ExtractCodeBlocks(Catalog[f].text),
                     stats  |-> stats]
    /\ lastBlocks' = [lastBlocks EXCEPT ![f] =
                         IF lastBlocks[f].calls = 0
                         THEN [calls |-> 1, blocks |-> blocksRet'.blocks, stats |-> stats]
                         ELSE [lastBlocks[f] EXCEPT !.calls = @ + 1]]
    /\ UNCHANGED <<stats, fileRet, selectedFiles, extractionResults, runs, outputName, statsRet>>

\* extractor.reset()
ResetCall ==
    /\ stats' = EmptyStats
    /\ UNCHANGED <<doc, blocksRet, fileRet, lastBlocks, selectedFiles, extractionResults, runs, outputName, statsRet>>

NextEngine ==
    \/ \E f \in 1..Len(Catalog) : \E readOk \in BOOLEAN : ProcessFileCall(f, readOk)
    \/ \E f \in 1..Len(Catalog) : ExtractCallOn(f)
    \/ ResetCall

SpecEngine == InitEngine /\ [][NextEngine]_vars

(* ------------- getStats and the object it returns (SpecStats) ---------- *)

\* An array that is the extractor's own collection, not a copy of it.
SameCollection(set) == [shared |-> TRUE, items |-> set]

\* Array.from(set): a new Array object with the elements of the Set in
\* insertion order. shared tells whether a write to the array reaches the
\* collection of the extractor it was made from.
ArrayFrom(set) == [shared |-> FALSE, items |-> set]

\* CodeExtractor.getStats
GetStats(s) ==
    [filesProcessed    |-> s.filesProcessed,
     codeBlocksFound   |-> s.codeBlocksFound,
     languagesDetected |-> ArrayFrom(s.languagesDetected),
     topicsCreated     |-> ArrayFrom(s.topicsCreated)]

\* The strings the caller pushes to an array getStats returned.
PushedItems == {<<"r", "u", "s", "t">>, <<"d", "r", "a", "f", "t">>}

\* const s = extractor.getStats()
GetStatsCall ==
    /\ CallsMade < MaxCalls
    /\ statsRet' = [statsRet EXCEPT !.calls = @ + 1, !.value = GetStats(stats)]
    /\ UNCHANGED <<stats, doc, blocksRet, fileRet, lastBlocks, selectedFiles, extractionResults, runs, outputName>>

\* s[field].push(x), on the object of the last getStats call
PushReturned(field, x) ==
    /\ CallsMade < MaxCalls
    /\ statsRet.calls > 0
    /\ statsRet' = [statsRet EXCEPT !.pushes = @ + 1,
                                    !.value[field].items = Append(@, x)]
    /\ stats' = IF statsRet.value[field].shared
                THEN [stats EXCEPT ![field] = Append(@, x)]
                ELSE stats
    /\ UNCHANGED <<doc, blocksRet, fileRet, lastBlocks, selectedFiles, extractionResults, runs, outputName>>

NextStats ==
    \/ \E f \in 1..Len(Catalog) : \E readOk \in BOOLEAN : ProcessFileCall(f, readOk)
    \/ \E f \in 1..Len(Catalog) : ExtractCallOn(f)
    \/ ResetCall
    \/ GetStatsCall
    \/ \E field \in {"languagesDetected", "topicsCreated"} : \E x \in PushedItems :
           PushReturned(field, x)

SpecStats == InitEngine /\ [][NextStats]_vars

(* --------------------------- CodeExtractorApp -------------------------- *)

\* The files the user offers to the page, as indexes of Catalog; 0 stands
\* for ImageFile.
Offered == {0, 2, 3}

FileAt(f) == IF f = 0 THEN ImageFile ELSE Catalog[f]

\* The extensions addFiles accepts.
ValidExtensions ==
    << <<".", "m", "d">>, <<".", "t", "x", "t">>, <<".", "l", "o", "g">>,
       <<".", "r", "t", "f">>, <<".", "t", "e", "x", "t">> >>

\* String.prototype.toLowerCase on the characters of Ascii.
ToLowerCase(s) ==
    [n \in 1..Len(s) |->
        IF s[n] \in UpperChar THEN Ascii[CharCode[s[n]] + 32 - 31] ELSE s[n]]

\* The filter of addFiles: the lowercased name ends with a valid extension,
\* or the name has no dot.
ValidFile(name) ==
    \/ \E n \in 1..Len(ValidExtensions) :
          LET ext == ValidExtensions[n]
          IN  /\ Len(name) >= Len(ext)
              /\ StartsWithAt(ToLowerCase(name), Len(name) - Len(ext) + 1, ext)
    \/ ~Includes(name, <<".">>)

\* selectedFiles.has(name), the Map kept as the sequence of its values.
HasFile(files, name) == \E n \in 1..Len(files) : FileAt(files[n]).name = name

\* Map.prototype.delete
DeleteFile(files, name) == SelectSeq(files, LAMBDA f : FileAt(f).name # name)

Init ==
    /\ doc = <<>>
    /\ blocksRet = NotCalled
    /\ stats = EmptyStats
    /\ fileRet = NoFileRet
    /\ lastBlocks = NoLastBlocks
    /\ selectedFiles = <<>>
    /\ extractionResults = NoResults
    /\ runs = [r \in 1..MaxRuns |-> IdleRun]
    /\ outputName = DefaultOutputName
    /\ statsRet = NoStatsRet

\* addFiles([FileAt(f)]) from the file input or a drop.
AddFiles(f) ==
    /\ selectedFiles' =
          IF ValidFile(FileAt(f).name) /\ ~HasFile(selectedFiles, FileAt(f).name)
          THEN Append(selectedFiles, f)
          ELSE selectedFiles
    /\ UNCHANGED <<stats, doc, blocksRet, fileRet, lastBlocks, extractionResults, runs, outputName, statsRet>>

\* removeFile(name) from the remove button of a listed file.
RemoveFile(f) ==
    /\ HasFile(selectedFiles, FileAt(f).name)
    /\ selectedFiles' = DeleteFile(selectedFiles, FileAt(f).name)
    /\ UNCHANGED <<stats, doc, blocksRet, fileRet, lastBlocks, extractionResults, runs, outputName, statsRet>>

\* clearFiles() from the Clear button.
ClearFiles ==
    /\ selectedFiles' = <<>>
    /\ UNCHANGED <<stats, doc, blocksRet, fileRet, lastBlocks, extractionResults, runs, outputName, statsRet>>

\* The activation a click on the Process button starts: the first one
\* the model has not used yet (0 when all MaxRuns are in use).
FreeRun ==
    IF \E r \in 1..MaxRuns : runs[r].pc = "idle"
    THEN Min({r \in 1..MaxRuns : runs[r].pc = "idle"})
    ELSE 0

\* What the user may have typed into the outputName input: nothing, or a
\* name.
OutputNameInputs == { <<>>, <<"n", "o", "t", "e", "s", "_", "c", "o", "d", "e">> }

\* The input listener of the outputName field.
SetOutputName(value) ==
    /\ outputName' = IF value # <<>> THEN value ELSE DefaultOutputName
    /\ UNCHANGED <<stats, doc, blocksRet, fileRet, lastBlocks, selectedFiles, extractionResults, runs, statsRet>>

\* A processFiles that does not call extractor.reset().
ProcessClickNoReset ==
    /\ FreeRun # 0
    /\ IF Len(selectedFiles) = 0
       THEN UNCHANGED <<stats, runs>>
       ELSE /\ stats' = stats
            /\ runs' = [runs EXCEPT ![FreeRun] =
                           [pc        |-> "read",
                            files     |-> selectedFiles,
                            results   |-> <<>>,
                            processed |-> 0]]
    /\ UNCHANGED <<doc, blocksRet, fileRet, lastBlocks, selectedFiles, extractionResults, outputName, statsRet>>

\* processFiles() from the Process button, up to its first await: the
\* early return on an empty selection, else reset, the snapshot of the
\* selection and the first processFile call, which starts the read of
\* files[0] and suspends.
ProcessClick ==
    /\ FreeRun # 0
    /\ IF Len(selectedFiles) = 0
       THEN UNCHANGED <<stats, runs>>
       ELSE /\ stats' = EmptyStats
            /\ runs' = [runs EXCEPT ![FreeRun] =
                           [pc        |-> "read",
                            files     |-> selectedFiles,
                            results   |-> <<>>,
                            processed |-> 0]]
    /\ UNCHANGED <<doc, blocksRet, fileRet, lastBlocks, selectedFiles, extractionResults, outputName, statsRet>>

\* A loop that leaves at the first result with an error.
ReadSettledStopOnError(r, readOk) ==
    /\ runs[r].pc = "read"
    /\ LET run  == runs[r]
           f    == run.files[run.processed + 1]
           file == FileAt(f)
           ret  == ProcessFile(stats, file, IF readOk THEN ReadLoaded(file) ELSE ReadFailed)
       IN  /\ stats' = ret.stats
           /\ runs' = [runs EXCEPT ![r] =
                 [pc        |-> IF run.processed + 1 < Len(run.files)
                                   /\ "error" \notin DOMAIN ret.value
                                THEN "read" ELSE "timer",
                  files     |-> run.files,
                  results   |-> Append(run.results,
                                       [file |-> file.name, result |-> ret.value]),
                  processed |-> run.processed + 1]]
    /\ UNCHANGED <<doc, blocksRet, fileRet, lastBlocks, selectedFiles, extractionResults, outputName, statsRet>>

\* The FileReader of activation r fires onload (readOk) or onerror:
\* processFile resumes and settles, processFiles resumes, pushes the result
\* and either starts processFile on the next file or, after the last one,
\* starts the 500 ms timer. A rejected processFile lands in the catch block
\* (showError).
ReadSettled(r, readOk) ==
    /\ runs[r].pc = "read"
    /\ LET run  == runs[r]
           f    == run.files[run.processed + 1]
           file == FileAt(f)
           ret  == ProcessFile(stats, file, IF readOk THEN ReadLoaded(file) ELSE ReadFailed)
       IN  /\ stats' = ret.stats
           /\ runs' = [runs EXCEPT ![r] =
                 IF ret.rejected
                 THEN [run EXCEPT !.pc = "failed"]
                 ELSE [pc        |-> IF run.processed + 1 < Len(run.files)
                                     THEN "read" ELSE "timer",
                       files     |-> run.files,
                       results   |-> Append(run.results,
                                            [file |-> file.name, result |-> ret.value]),
                       processed |-> run.processed + 1]]
    /\ UNCHANGED <<doc, blocksRet, fileRet, lastBlocks, selectedFiles, extractionResults, outputName, statsRet>>

\* The 500 ms timer of activation r fires: extractionResults is assigned
\* and showResults runs.
TimerFire(r) ==
    /\ runs[r].pc = "timer"
    /\ extractionResults' = [assigned |-> TRUE, results |-> runs[r].results]
    /\ runs' = [runs EXCEPT ![r].pc = "done"]
    /\ UNCHANGED <<stats, doc, blocksRet, fileRet, lastBlocks, selectedFiles, outputName, statsRet>>

\* startNewExtraction() from the New Extraction button of the results.
StartNewExtraction ==
    /\ selectedFiles' = <<>>
    /\ extractionResults' = NoResults
    /\ stats' = EmptyStats
    /\ UNCHANGED <<doc, blocksRet, fileRet, lastBlocks, runs, outputName, statsRet>>

Next ==
    \/ \E f \in Offered : AddFiles(f)
    \/ \E f \in Offered : RemoveFile(f)
    \/ ClearFiles
    \/ ProcessClick
    \/ \E r \in 1..MaxRuns : \E readOk \in BOOLEAN : ReadSettled(r, readOk)
    \/ \E r \in 1..MaxRuns : TimerFire(r)
    \/ StartNewExtraction
    \/ \E value \in OutputNameInputs : SetOutputName(value)

Spec == Init /\ [][Next]_vars

\* Every read the browser starts ends in onload or onerror, and every
\* timer it sets fires.
Fairness ==
    \A r \in 1..MaxRuns :
        /\ WF_vars(\E readOk \in BOOLEAN : ReadSettled(r, readOk))
        /\ WF_vars(TimerFire(r))

FairSpec == Spec /\ Fairness

(* ------------------- single calls on short texts (SpecUnit) ------------- *)

\* Lines that short texts are built from.
SnippetLines == {
    \* def f(x):
    <<"d", "e", "f", " ", "f", "(", "x", ")", ":">>,
    \* function g() {
    <<"f", "u", "n", "c", "t", "i", "o", "n", " ", "g", "(", ")", " ", "{">>,
    \* SELECT a FROM t
    <<"S", "E", "L", "E", "C", "T", " ", "a", " ", "F", "R", "O", "M", " ", "t">>,
    \* # Database  setup: notes, plans and a long list of open questions
    <<"#", " ", "D", "a", "t", "a", "b", "a", "s", "e", " ", " ", "s", "e", "t", "u", "p", ":", " ", "n", "o", "t", "e", "s", ",", " ", "p", "l", "a", "n", "s", " ", "a", "n", "d", " ", "a", " ", "l", "o", "n", "g", " ", "l", "i", "s", "t", " ", "o", "f", " ", "o", "p", "e", "n", " ", "q", "u", "e", "s", "t", "i", "o", "n", "s">>,
    \* # !!!
    <<"#", " ", "!", "!", "!">>,
    \* # Heading One
    <<"#", " ", "H", "e", "a", "d", "i", "n", "g", " ", "O", "n", "e">>,
    \* ## Part Two
    <<"#", "#", " ", "P", "a", "r", "t", " ", "T", "w", "o">>,
    \* Title: My-Doc!
    <<"T", "i", "t", "l", "e", ":", " ", "M", "y", "-", "D", "o", "c", "!">>,
    \* Subject: Re x
    <<"S", "u", "b", "j", "e", "c", "t", ":", " ", "R", "e", " ", "x">>,
    \* plain words
    <<"p", "l", "a", "i", "n", " ", "w", "o", "r", "d", "s">>,
    \* #include <iostream>
    <<"#", "i", "n", "c", "l", "u", "d", "e", " ", "<", "i", "o", "s", "t", "r", "e", "a", "m", ">">>,
    \* std::cout << x;
    <<"s", "t", "d", ":", ":", "c", "o", "u", "t", " ", "<", "<", " ", "x", ";">> }

\* File names handed to generateTopicName.
TopicFileNames == {
    \* notes.md
    <<"n", "o", "t", "e", "s", ".", "m", "d">>,
    \* .md
    <<".", "m", "d">>,
    \* archive.tar.gz
    <<"a", "r", "c", "h", "i", "v", "e", ".", "t", "a", "r", ".", "g", "z">>,
    \* README
    <<"R", "E", "A", "D", "M", "E">> }

MaxSnippetLines == 2

RECURSIVE SnippetsOf(_)
SnippetsOf(n) ==
    IF n = 1 THEN SnippetLines
    ELSE LET shorter == SnippetsOf(n - 1)
         IN  shorter \cup { s \o <<"\n">> \o l : s \in shorter, l \in SnippetLines }

Snippets == SnippetsOf(MaxSnippetLines)

\* Declared labels passed to the CodeBlock constructor: none, python, sql,
\* JS (a label outside the classifier and the extension table), and txt.
UnitTags == {
    <<>>,
    <<"p", "y", "t", "h", "o", "n">>,
    <<"s", "q", "l">>,
    <<"J", "S">>,
    Txt }

UnitStartLines == { 1, 7 }

UnitIndexes == { 1, 10, 123 }

InitUnit ==
    /\ doc \in Snippets
    /\ blocksRet = NotCalled
    /\ stats = EmptyStats
    /\ fileRet = NoFileRet
    /\ lastBlocks = NoLastBlocks
    /\ selectedFiles = <<>>
    /\ extractionResults = NoResults
    /\ runs = [r \in 1..MaxRuns |-> IdleRun]
    /\ outputName = DefaultOutputName
    /\ statsRet = NoStatsRet

\* new CodeBlock(doc, language, startLine)
NewCodeBlock(language, startLine) ==
    /\ blocksRet.calls = 0
    /\ blocksRet' = [calls |-> 1, op |-> "CodeBlock", language |-> language,
                     block |-> CodeBlock(doc, language, startLine)]
    /\ UNCHANGED <<stats, doc, fileRet, lastBlocks, selectedFiles, extractionResults, runs, outputName, statsRet>>

\* extractor.generateTopicName(fileName, doc)
TopicCall(fileName) ==
    /\ blocksRet.calls = 0
    /\ blocksRet' = [calls |-> 1, op |-> "generateTopicName", fileName |-> fileName,
                     topic |-> GenerateTopicName(fileName, doc)]
    /\ UNCHANGED <<stats, doc, fileRet, lastBlocks, selectedFiles, extractionResults, runs, outputName, statsRet>>

\* The body of the naming loop of processFile for codeBlocks[index - 1],
\* a block with content doc.
NamingStep(index, language) ==
    /\ blocksRet.calls = 0
    /\ blocksRet' = [calls |-> 1, op |-> "extractedFiles.push", index |-> index,
                     block |-> CodeBlock(doc, language, 1),
                     file |-> ExtractedFile(index, CodeBlock(doc, language, 1))]
    /\ UNCHANGED <<stats, doc, fileRet, lastBlocks, selectedFiles, extractionResults, runs, outputName, statsRet>>

NextUnit ==
    \/ \E language \in UnitTags : \E startLine \in UnitStartLines : NewCodeBlock(language, startLine)
    \/ \E fileName \in TopicFileNames : TopicCall(fileName)
    \/ \E index \in UnitIndexes : \E language \in UnitTags : NamingStep(index, language)

SpecUnit == InitUnit /\ [][NextUnit]_vars

(* --------------- documents whose only code is fenced (SpecFenced) ------- *)

\* Opening fences with a declared label.
PythonFence     == <<BackTick, BackTick, BackTick, "p", "y", "t", "h", "o", "n">>
JavascriptFence == <<BackTick, BackTick, BackTick, "j", "a", "v", "a", "s", "c", "r", "i", "p", "t">>

\* An unindented line of code, and an indented one.
LeadLine     == <<"x", " ", "=", " ", "1">>
FlatLine     == <<"p", "r", "i", "n", "t", "(", "c", "o", "m", "p", "u", "t", "e", "(", "v", "a", "l", "u", "e", ",", " ", "1", ")", ")">>
IndentedLine == <<" ", " ", " ", " ", "t", "o", "t", "a", "l", " ", "=", " ", "a", "d", "d", "(", "a", ",", " ", "b", ")">>

\* Number of unindented lines between an opening fence and the body of its
\* span, when there are any.
MaxLead == 5

\* Number of fenced spans of a document.
MaxSpans == 2

\* The lines of a fenced span: the opening fence, no unindented lines or
\* MaxLead of them, one unindented line or four indented lines of code,
\* the closing fence.
FencedSpans ==
    { <<open>> \o lead \o code \o <<PlainFence>> :
          open \in {PlainFence, PythonFence, JavascriptFence},
          lead \in {<<>>, [n \in 1..MaxLead |-> LeadLine]},
          code \in {<<FlatLine>>, <<IndentedLine, IndentedLine, IndentedLine, IndentedLine>>} }

FencedDocs ==
    { JoinLines(Flatten(spans)) : spans \in UNION {[1..n -> FencedSpans] : n \in 1..MaxSpans} }

InitFenced ==
    /\ doc \in FencedDocs
    /\ blocksRet = NotCalled
    /\ stats = EmptyStats
    /\ fileRet = NoFileRet
    /\ lastBlocks = NoLastBlocks
    /\ selectedFiles = <<>>
    /\ extractionResults = NoResults
    /\ runs = [r \in 1..MaxRuns |-> IdleRun]
    /\ outputName = DefaultOutputName
    /\ statsRet = NoStatsRet

SpecFenced == InitFenced /\ [][ExtractCall]_vars

(* --------------- the indented scanner on short documents (SpecIndented) -- *)

\* Lines that the documents are built from: a line of code indented by four
\* spaces, a short line indented by a tab, indented words that match no
\* code pattern, an empty line, and an unindented line of words.
IndentedPalette == {
    <<" ", " ", " ", " ", "t", "o", "t", "a", "l", " ", "=", " ", "a", "d", "d", "(", "a", ",", " ", "b", ")">>,
    <<"\t", "x">>,
    <<" ", " ", " ", " ", "p", "l", "a", "i", "n", " ", "w", "o", "r", "d", "s", " ", "o", "n", "l", "y", " ", "h", "e", "r", "e">>,
    <<>>,
    <<"S", "o", "m", "e", " ", "t", "e", "x", "t">> }

MaxIndentedLines == 5

IndentedDocs ==
    { JoinLines(ls) : ls \in UNION {[1..n -> IndentedPalette] : n \in 1..MaxIndentedLines} }

InitIndented ==
    /\ doc \in IndentedDocs
    /\ blocksRet = NotCalled
    /\ stats = EmptyStats
    /\ fileRet = NoFileRet
    /\ lastBlocks = NoLastBlocks
    /\ selectedFiles = <<>>
    /\ extractionResults = NoResults
    /\ runs = [r \in 1..MaxRuns |-> IdleRun]
    /\ outputName = DefaultOutputName
    /\ statsRet = NoStatsRet

\* extractor.extractIndentedCodeBlocks(doc)
IndentedCall ==
    /\ blocksRet.calls = 0
    /\ blocksRet' = [calls |-> 1, blocks |-> ExtractIndentedCodeBlocks(doc), stats |-> stats]
    /\ UNCHANGED <<stats, doc, fileRet, lastBlocks, selectedFiles, extractionResults, runs, outputName, statsRet>>

SpecIndented == InitIndented /\ [][IndentedCall]_vars

(* --------------- fenced spans at the length threshold (SpecBoundary) ---- *)

\* Lines that the documents are built from: a fence without and with a
\* tag, a line of 20 and a line of 21 characters, and the same two lines
\* with four spaces before and two spaces after them.
BoundaryPalette == {
    PlainFence,
    TaggedFence,
    <<"y", " ", "=", " ", "a", "d", "d", "(", "a", ",", " ", "b", ")", " ", "+", " ", "c", "(", "d", ")">>,
    <<"y", "y", " ", "=", " ", "a", "d", "d", "(", "a", ",", " ", "b", ")", " ", "+", " ", "c", "(", "d", ")">>,
    <<" ", " ", " ", " ", "y", " ", "=", " ", "a", "d", "d", "(", "a", ",", " ", "b", ")", " ", "+", " ", "c", "(", "d", ")", " ", " ">>,
    <<" ", " ", " ", " ", "y", "y", " ", "=", " ", "a", "d", "d", "(", "a", ",", " ", "b", ")", " ", "+", " ", "c", "(", "d", ")", " ", " ">> }

MaxBoundaryLines == 4

BoundaryDocs ==
    { JoinLines(ls) : ls \in UNION {[1..n -> BoundaryPalette] : n \in 1..MaxBoundaryLines} }

InitBoundary ==
    /\ doc \in BoundaryDocs
    /\ blocksRet = NotCalled
    /\ stats = EmptyStats
    /\ fileRet = NoFileRet
    /\ lastBlocks = NoLastBlocks
    /\ selectedFiles = <<>>
    /\ extractionResults = NoResults
    /\ runs = [r \in 1..MaxRuns |-> IdleRun]
    /\ outputName = DefaultOutputName
    /\ statsRet = NoStatsRet

SpecBoundary == InitBoundary /\ [][ExtractCall]_vars

(* ------------- documents made of whole blocks (SpecOrder) -------------- *)

\* The parts of a document: a fenced span, an indented run of four lines,
\* and a line of prose.
OrderParts ==
    { <<PlainFence, CodeLine, PlainFence>>,
      <<CodeLine, BlankLine, BlankLine, BlankLine>>,
      <<ProseLine>> }

\* The number of parts of a document.
MaxParts == 5

OrderDocs == { JoinLines(Flatten(ps)) : ps \in UNION {[1..n -> OrderParts] : n \in 0..MaxParts} }

InitOrder ==
    /\ doc \in OrderDocs
    /\ blocksRet = NotCalled
    /\ stats = EmptyStats
    /\ fileRet = NoFileRet
    /\ lastBlocks = NoLastBlocks
    /\ selectedFiles = <<>>
    /\ extractionResults = NoResults
    /\ runs = [r \in 1..MaxRuns |-> IdleRun]
    /\ outputName = DefaultOutputName
    /\ statsRet = NoStatsRet

SpecOrder == InitOrder /\ [][ExtractCall]_vars

(* ============================ properties ================================ *)

(* ------------------- single calls on short texts (SpecUnit) ------------- *)

CandidateOrder == <<
    <<"p", "y", "t", "h", "o", "n">>, <<"j", "a", "v", "a", "s", "c", "r", "i", "p", "t">>,
    <<"j", "a", "v", "a">>, <<"c">>, <<"c", "p", "p">>, <<"h", "t", "m", "l">>,
    <<"c", "s", "s">>, <<"s", "q", "l">>, <<"b", "a", "s", "h">>,
    <<"d", "o", "c", "k", "e", "r", "f", "i", "l", "e">>, <<"j", "s", "o", "n">>,
    <<"y", "a", "m", "l">>, <<"x", "m", "l">>>>

\* The number of signatures of candidate k that match the content.
SignatureMatches(k, content) ==
    Cardinality({p \in 1..Len(LanguagePatterns[k].patternList) :
                    Test(LanguagePatterns[k].patternList[p], content)})

\* C12: detectLanguage always returns one label: that of the first
\* candidate, in the order python, javascript, java, c, cpp, html, css, sql,
\* bash, dockerfile, json, yaml, xml, with at least one signature matching
\* the content, and txt when no candidate has one; how many signatures a
\* later candidate matches makes no difference.
C12_FirstCandidateWins ==
    (blocksRet.calls = 1 /\ blocksRet.op = "CodeBlock" /\ blocksRet.language = <<>>) =>
        LET content == blocksRet.block.content
            matching == {k \in 1..Len(CandidateOrder) : SignatureMatches(k, content) > 0}
        IN  /\ Len(LanguagePatterns) = Len(CandidateOrder)
            /\ \A k \in 1..Len(CandidateOrder) : LanguagePatterns[k].lang = CandidateOrder[k]
            /\ IF matching = {}
               THEN blocksRet.block.language = Txt
               ELSE blocksRet.block.language =
                        CandidateOrder[CHOOSE k \in matching : \A j \in matching : k <= j]

\* An unlabelled block whose first matching candidate matches one signature
\* while a later candidate matches more.
C12_Witness ==
    /\ blocksRet.calls = 1 /\ blocksRet.op = "CodeBlock" /\ blocksRet.language = <<>>
    /\ \E k \in 1..Len(CandidateOrder) :
          /\ blocksRet.block.language = CandidateOrder[k]
          /\ SignatureMatches(k, blocksRet.block.content) = 1
          /\ \E j \in (k + 1)..Len(CandidateOrder) :
                SignatureMatches(j, blocksRet.block.content) >= 2

\* Group 1 of pattern n of titlePatterns in the content, empty when the
\* pattern does not match.
TitleOf(content, n) == TitleMatch(content, TitlePatterns[n].prefix, TitlePatterns[n].minSpace)

\* C13: generateTopicName takes the topic from the first pattern that
\* matches, in the order top-level heading, second-level heading, Title:
\* line, Subject: line, wherever the matching lines stand in the document;
\* when none matches the topic is the file name without its extension, and
\* unknown_topic when that is empty.
C13_TopicPriority ==
    (blocksRet.calls = 1 /\ blocksRet.op = "generateTopicName") =>
        LET matched == {n \in 1..Len(TitlePatterns) : TitleOf(doc, n) # <<>>}
            first   == CHOOSE n \in matched : \A k \in matched : n <= k
        IN  /\ TitlePatterns[1].prefix = <<"#">>
            /\ TitlePatterns[2].prefix = <<"#", "#">>
            /\ TitlePatterns[3].prefix = <<"T", "i", "t", "l", "e", ":">>
            /\ TitlePatterns[4].prefix = <<"S", "u", "b", "j", "e", "c", "t", ":">>
            /\ IF matched # {}
               THEN blocksRet.topic =
                        Substring(SpacesToUnderscore(Trim(StripNonWord(TitleOf(doc, first)))), 1, TopicMaxLength)
               ELSE IF RemoveExtension(blocksRet.fileName) # <<>>
                    THEN blocksRet.topic = RemoveExtension(blocksRet.fileName)
                    ELSE blocksRet.topic = UnknownTopic

\* A document whose second-level heading stands above its top-level
\* heading, named after the top-level heading.
C13_Witness ==
    /\ blocksRet.calls = 1 /\ blocksRet.op = "generateTopicName"
    /\ \E i \in 1..Len(doc) : \E j \in (i + 1)..Len(doc) :
          /\ TitleMatchAt(doc, i, <<"#", "#">>, 1) # <<>>
          /\ TitleMatchAt(doc, j, <<"#">>, 1) # <<>>
    /\ blocksRet.topic = <<"H", "e", "a", "d", "i", "n", "g", "_", "O", "n", "e">>

\* A document without any title line and a file name that is only an
\* extension.
C13_WitnessUnknown ==
    /\ blocksRet.calls = 1 /\ blocksRet.op = "generateTopicName"
    /\ blocksRet.fileName = <<".", "m", "d">>
    /\ blocksRet.topic = UnknownTopic

C14_WitnessFallback ==
    /\ blocksRet.calls = 1 /\ blocksRet.op = "extractedFiles.push"
    /\ blocksRet.index = 1
    /\ blocksRet.block.language = Txt
    /\ Len(blocksRet.file.fileName) = 8 + 8 + 4

\* The accumulator acc := 31 * acc + c modulo 2^32 after the first n
\* characters of the content, as its four bytes, lowest first.
RECURSIVE AccBytes(_, _)
AccBytes(content, n) ==
    IF n = 0 THEN <<0, 0, 0, 0>>
    ELSE LET acc == AccBytes(content, n - 1)
             t1  == 31 * acc[1] + CharCode[content[n]]
             t2  == 31 * acc[2] + (t1 \div 256)
             t3  == 31 * acc[3] + (t2 \div 256)
             t4  == 31 * acc[4] + (t3 \div 256)
         IN  <<t1 % 256, t2 % 256, t3 % 256, t4 % 256>>

\* The accumulator read as a signed 32-bit integer is negative.
IsNegative(acc) == acc[4] >= 128

\* The bytes of the absolute value of the signed 32-bit integer.
Magnitude(acc) ==
    IF ~IsNegative(acc) THEN acc
    ELSE LET t1 == (255 - acc[1]) + 1
             t2 == (255 - acc[2]) + (t1 \div 256)
             t3 == (255 - acc[3]) + (t2 \div 256)
             t4 == (255 - acc[4]) + (t3 \div 256)
         IN  <<t1 % 256, t2 % 256, t3 % 256, t4 % 256>>

\* Four bytes, lowest first, as eight lowercase hexadecimal digits.
EightHex(bytes) ==
    [k \in 1..8 |->
        LET byte == bytes[4 - ((k - 1) \div 2)]
        IN  IF k % 2 = 1 THEN HexDigits[(byte \div 16) + 1] ELSE HexDigits[(byte % 16) + 1]]

\* C18: the hash of a block is the absolute value of the accumulator
\* (start 0, acc := 31 * acc + c wrapped to signed 32 bits for each
\* character code c of the content in order) in lowercase hexadecimal,
\* padded with zeros on the left to exactly 8 characters; it depends on the
\* content alone, not on the label or the startLine.
C18_HashOfContent ==
    (blocksRet.calls = 1 /\ blocksRet.op = "CodeBlock") =>
        LET content == blocksRet.block.content
            hash    == blocksRet.block.hash
        IN  /\ content = Trim(doc)
            /\ Len(hash) = 8
            /\ \A k \in 1..Len(hash) : \E d \in 1..Len(HexDigits) : hash[k] = HexDigits[d]
            /\ hash = EightHex(Magnitude(AccBytes(content, Len(content))))

\* A block with a declared label and a startLine other than 1 whose
\* accumulator ends negative and whose hash begins with a padding zero.
C18_Witness ==
    /\ blocksRet.calls = 1 /\ blocksRet.op = "CodeBlock"
    /\ blocksRet.language = <<"J", "S">>
    /\ blocksRet.block.startLine = 7
    /\ IsNegative(AccBytes(blocksRet.block.content, Len(blocksRet.block.content)))
    /\ blocksRet.block.hash[1] = "0"

\* What the claims say becomes of the text matched by a title pattern:
\* the characters outside keep are dropped, the result is trimmed, every
\* run of white space becomes one underscore, and at most 50 characters
\* are kept.
TopicOfTitle(text, keep) ==
    LET kept  == Trim(SelectSeq(text, LAMBDA c : c \in keep \cup SpaceChar))
        first == SelectSeq([i \in 1..Len(kept) |-> i],
                           LAMBDA i : kept[i] \notin SpaceChar \/ i = 1 \/ kept[i - 1] \notin SpaceChar)
        slug  == [n \in 1..Len(first) |->
                     IF kept[first[n]] \in SpaceChar THEN "_" ELSE kept[first[n]]]
    IN  SubSeq(slug, 1, IF Len(slug) < 50 THEN Len(slug) ELSE 50)

\* The text the first matching title pattern captures, empty when none
\* matches.
FirstTitle(content) ==
    LET matched == {n \in 1..Len(TitlePatterns) : TitleOf(content, n) # <<>>}
    IN  IF matched = {} THEN <<>>
        ELSE TitleOf(content, CHOOSE n \in matched : \A k \in matched : n <= k)

\* C24 as stated: a topic taken from a heading, a Title: or a Subject: line
\* consists of word characters only: every character that is not a word
\* character is stripped from the matched text, each run of white space
\* becomes one underscore and the result is cut to 50 characters.
C24_TopicWordCharsOnly ==
    (blocksRet.calls = 1 /\ blocksRet.op = "generateTopicName" /\ FirstTitle(doc) # <<>>) =>
        /\ \A n \in 1..Len(blocksRet.topic) : blocksRet.topic[n] \in WordChar
        /\ blocksRet.topic = TopicOfTitle(FirstTitle(doc), WordChar)

\* C24, amended: such a topic consists of word characters and hyphens only:
\* every character other than a word character, white space or a hyphen is
\* stripped from the matched text, the result is trimmed, each run of white
\* space becomes one underscore and the result is cut to 50 characters.
C24_TopicWordCharsAndHyphens ==
    (blocksRet.calls = 1 /\ blocksRet.op = "generateTopicName" /\ FirstTitle(doc) # <<>>) =>
        /\ \A n \in 1..Len(blocksRet.topic) : blocksRet.topic[n] \in WordChar \cup {"-"}
        /\ Len(blocksRet.topic) <= 50
        /\ blocksRet.topic = TopicOfTitle(FirstTitle(doc), WordChar \cup {"-"})

\* A heading with punctuation and a double space, cut to 50 characters.
C24_Witness ==
    /\ blocksRet.calls = 1 /\ blocksRet.op = "generateTopicName"
    /\ Len(FirstTitle(doc)) > 50
    /\ \E i \in 1..(Len(FirstTitle(doc)) - 1) :
          FirstTitle(doc)[i] = " " /\ FirstTitle(doc)[i + 1] = " "
    /\ Len(blocksRet.topic) = 50
    /\ SubSeq(blocksRet.topic, 1, 15) =
          <<"D", "a", "t", "a", "b", "a", "s", "e", "_", "s", "e", "t", "u", "p", "_">>

\* A title with a hyphen, kept in the topic.
C24_WitnessHyphen ==
    /\ blocksRet.calls = 1 /\ blocksRet.op = "generateTopicName"
    /\ blocksRet.topic = <<"M", "y", "-", "D", "o", "c">>

\* C25: unlabelled content that matches no python, javascript or java
\* signature and has a C++ marker (std:: or cout <<) is classified cpp,
\* also when it has #include <, int main( or printf( in it.
C25_CppBeforeC ==
    (blocksRet.calls = 1 /\ blocksRet.op = "CodeBlock" /\ blocksRet.language = <<>>) =>
        LET content == blocksRet.block.content
        IN  (/\ \A k \in 1..3 : SignatureMatches(k, content) = 0
             /\ \/ Includes(content, <<"s", "t", "d", ":", ":">>)
                \/ Test(<<Lit(<<"c", "o", "u", "t">>) \o <<Star(SpaceChar)>> \o Lit(<<"<", "<">>)>>, content))
            => blocksRet.block.language = <<"c", "p", "p">>

\* Content with std:: and cout << in it, and #include < as well, is
\* classified c.
C25_ClassifiedC ==
    /\ blocksRet.calls = 1 /\ blocksRet.op = "CodeBlock" /\ blocksRet.language = <<>>
    /\ Includes(blocksRet.block.content, <<"s", "t", "d", ":", ":">>)
    /\ Includes(blocksRet.block.content, <<"#", "i", "n", "c", "l", "u", "d", "e", " ", "<">>)
    /\ blocksRet.block.language = <<"c">>

\* Content with std:: and without any marker of c is classified cpp.
C25_ClassifiedCpp ==
    /\ blocksRet.calls = 1 /\ blocksRet.op = "CodeBlock" /\ blocksRet.language = <<>>
    /\ Includes(blocksRet.block.content, <<"s", "t", "d", ":", ":">>)
    /\ blocksRet.block.language = <<"c", "p", "p">>

\* The indexes a name is compared with: of one, two and three digits, with
\* digits in common.
ComparedIndexes == {1, 2, 10, 11, 12, 23, 100, 101, 112, 123}

\* Labels of the blocks a name is compared with: those of UnitTags, and
\* labels made of digits.
ComparedTags == UnitTags \cup { <<"1", "0">>, <<"2", "3">> }

\* The names the template gives to the blocks at the indexes.
NamesOf(blocks, indexes) == { CodeFileName(j, b) : j \in indexes, b \in blocks }

\* Claim C30: within one processFile result the fileName values are
\* pairwise distinct. The name given to the block at an index starts with
\* code_, the index in decimal digits, padded to two, and an underscore, and
\* it differs from the name of the block at every other index, for indexes
\* of three digits as for others and whatever the label of the other block,
\* also when the other block has the same content, language and hash.
C30_FileNamesDistinct ==
    (blocksRet.calls = 1 /\ blocksRet.op = "extractedFiles.push") =>
        LET index  == blocksRet.index
            name   == blocksRet.file.fileName
            prefix == <<"c", "o", "d", "e", "_">> \o PadStart(ToDec(index), 2) \o <<"_">>
            others == {blocksRet.block} \cup {CodeBlock(doc, language, 1) : language \in ComparedTags}
        IN  /\ Len(name) > Len(prefix)
            /\ SubSeq(name, 1, Len(prefix)) = prefix
            /\ name \notin NamesOf(others, ComparedIndexes \ {index})

\* The block at index 123 has been named; the same block at index 23 has
\* the same content, language, hash and extension, and another name.
C30_Witness ==
    /\ blocksRet.calls = 1 /\ blocksRet.op = "extractedFiles.push"
    /\ blocksRet.index = 123
    /\ LET other == ExtractedFile(23, blocksRet.block)
       IN  /\ other.content = blocksRet.file.content
           /\ other.language = blocksRet.file.language
           /\ other.hash = blocksRet.file.hash
           /\ other.fileName # blocksRet.file.fileName

(* ---------------- extractCodeBlocks on one document (SpecExtract) ------- *)

\* a is b with some elements left out.
RECURSIVE IsSubSeq(_, _)
IsSubSeq(a, b) ==
    IF a = <<>> THEN TRUE
    ELSE IF b = <<>> THEN FALSE
    ELSE IF Head(a) = Head(b) THEN IsSubSeq(Tail(a), Tail(b))
    ELSE IsSubSeq(a, Tail(b))

\* The matches of the fence pattern from lastIndex on whose trimmed content
\* is longer than 20 characters, with the tag and the content as matched.
RECURSIVE KeptFenceMatches(_, _)
KeptFenceMatches(content, lastIndex) ==
    LET match == FenceExec(content, lastIndex) IN
    IF match.index = 0 THEN <<>>
    ELSE (IF Len(Trim(match.content)) > 20 THEN << match >> ELSE <<>>)
             \o KeptFenceMatches(content, match.lastIndex)

\* Claim C1: for every document, extractCodeBlocks returns all the blocks of
\* the fenced scanner first, in the order it found them, and after them
\* blocks of the indented scanner only, in the order it found them; no
\* indented block stands before a fenced one, wherever it is in the document.
C1_FencedBeforeIndented ==
    blocksRet.calls = 1 =>
        LET Returned     == blocksRet.blocks
            FencedPart   == ExtractMarkdownCodeBlocks(doc)
            IndentedPart == ExtractIndentedCodeBlocks(doc)
        IN  /\ Len(Returned) >= Len(FencedPart)
            /\ SubSeq(Returned, 1, Len(FencedPart)) = FencedPart
            /\ IsSubSeq(SubSeq(Returned, Len(FencedPart) + 1, Len(Returned)), IndentedPart)

\* An indented block that starts above the fenced block of the document is
\* returned after it.
C1_Witness ==
    /\ blocksRet.calls = 1
    /\ LET Returned   == blocksRet.blocks
           FencedPart == ExtractMarkdownCodeBlocks(doc)
       IN  /\ Len(FencedPart) >= 1
           /\ Len(Returned) > Len(FencedPart)
           /\ Returned[Len(Returned)].startLine < Returned[1].startLine

\* Claim C2: for every fenced span that is kept, the language of the block
\* is the tag on its opening fence, character for character, whenever there
\* is a tag, whatever the classifier says about the content; it is the
\* classifier result for the trimmed content only when there is no tag.
C2_TagVerbatim ==
    blocksRet.calls = 1 =>
        LET matches  == KeptFenceMatches(doc, 1)
            Returned == blocksRet.blocks
        IN
        /\ Len(Returned) >= Len(matches)
        /\ \A n \in 1..Len(matches) :
              /\ Returned[n].content = Trim(matches[n].content)
              /\ Returned[n].language =
                    IF matches[n].language # <<>> THEN matches[n].language
                    ELSE DetectLanguage(Trim(matches[n].content))

\* A tagged span whose content the classifier takes for another language
\* than the tag is returned with the tag.
C2_Witness ==
    /\ blocksRet.calls = 1
    /\ LET matches  == KeptFenceMatches(doc, 1)
           Returned == blocksRet.blocks
       IN
       \E n \in 1..Len(matches) :
           /\ matches[n].language = <<"J", "S">>
           /\ DetectLanguage(Trim(matches[n].content)) \notin {Txt, <<"J", "S">>}
           /\ Returned[n].language = <<"J", "S">>

\* The indented block I duplicates the fenced block F in the sense of the
\* specification: fewer than 5 lines apart, and F contains the first 100
\* characters of I.
Overlaps(I, F) ==
    /\ Abs(I.startLine - F.startLine) < 5
    /\ Includes(F.content, Substring(I.content, 1, 100))

C16_StartLineOneBased ==
    blocksRet.calls = 1 =>
        LET lines   == SplitLines(doc)
            matches == KeptFenceMatches(doc, 1)
            blocks  == blocksRet.blocks
        IN  \A n \in 1..Len(blocks) :
                IF n <= Len(matches)
                THEN blocks[n].startLine =
                         1 + Cardinality({i \in 1..(matches[n].index - 1) : doc[i] = "\n"})
                ELSE /\ blocks[n].startLine \in 1..Len(lines)
                     /\ IsIndented(lines[blocks[n].startLine])
                     /\ StartsWithAt(blocks[n].content, 1, Trim(lines[blocks[n].startLine]))

\* An indented block whose run starts on the first line of the document,
\* returned with startLine 0.
C16_StartLineZero ==
    /\ blocksRet.calls = 1
    /\ IsIndented(SplitLines(doc)[1])
    /\ \E n \in 1..Len(blocksRet.blocks) : blocksRet.blocks[n].startLine = 0

\* C21: the dedup pass, which compares each indented block with all blocks
\* accepted so far, returns what a pass comparing it with the fenced blocks
\* only returns: the fenced blocks followed by the indented blocks no fenced
\* block overlaps; no indented block overlaps an indented block found before
\* it, so none is dropped because of another indented block.
C21_FencedOnlyDedup ==
    blocksRet.calls = 1 =>
        LET FencedPart   == ExtractMarkdownCodeBlocks(doc)
            IndentedPart == ExtractIndentedCodeBlocks(doc)
        IN  /\ blocksRet.blocks =
                  FencedPart \o SelectSeq(IndentedPart,
                      LAMBDA I : ~\E n \in 1..Len(FencedPart) : Overlaps(I, FencedPart[n]))
            /\ \A j \in 1..Len(IndentedPart) : \A i \in 1..(j - 1) :
                  ~Overlaps(IndentedPart[j], IndentedPart[i])

\* Two indented blocks with the same content are both returned.
C21_Witness ==
    /\ blocksRet.calls = 1
    /\ LET Fenced == Len(ExtractMarkdownCodeBlocks(doc))
       IN  \E i \in (Fenced + 1)..Len(blocksRet.blocks) :
               \E j \in (i + 1)..Len(blocksRet.blocks) :
                   blocksRet.blocks[i].content = blocksRet.blocks[j].content

(* --------------- the indented scanner on short documents (SpecIndented) -- *)

\* Line k belongs to a run: an indented line at or above it is joined to it
\* by indented or blank lines only.
InRun(lines, k) ==
    \E s \in 1..k :
        /\ IsIndented(lines[s])
        /\ \A m \in s..k : IsIndented(lines[m]) \/ Trim(lines[m]) = <<>>

\* The last line of the run that line s belongs to.
RunEnd(lines, s) ==
    CHOOSE e \in s..Len(lines) :
        /\ \A m \in s..e : InRun(lines, m)
        /\ e = Len(lines) \/ ~InRun(lines, e + 1)

\* The trimmed text of the run that starts at line s.
RunText(lines, s) == Trim(JoinLines(SubSeq(lines, s, RunEnd(lines, s))))

RECURSIVE FenceMatches(_, _)
FenceMatches(content, lastIndex) ==
    LET match == FenceExec(content, lastIndex) IN
    IF match.index = 0 THEN <<>>
    ELSE << match >> \o FenceMatches(content, match.lastIndex)

\* C23: every returned block has content that is not empty and neither
\* starts nor ends with white space; the fenced blocks are the fenced spans
\* whose trimmed content has more than 20 characters (20 is discarded, 21
\* kept, white space around the content not counted), and a document in
\* which no fence follows a line end has no fenced block.
C23_TrimmedAndThreshold ==
    blocksRet.calls = 1 =>
        LET spans  == FenceMatches(doc, 1)
            long   == SelectSeq(spans, LAMBDA m : Len(Trim(m.content)) >= 21)
            blocks == blocksRet.blocks
        IN  /\ \A n \in 1..Len(blocks) :
                  /\ blocks[n].content # <<>>
                  /\ blocks[n].content[1] \notin SpaceChar
                  /\ blocks[n].content[Len(blocks[n].content)] \notin SpaceChar
            /\ Len(blocks) >= Len(long)
            /\ \A n \in 1..Len(long) : blocks[n].content = Trim(long[n].content)
            /\ \A n \in 1..Len(blocks) : \A k \in 1..Len(spans) :
                  Len(Trim(spans[k].content)) <= 20 => blocks[n].content # Trim(spans[k].content)
            /\ \A n \in (Len(long) + 1)..Len(blocks) :
                  \E k \in 1..Len(ExtractIndentedCodeBlocks(doc)) :
                      blocks[n] = ExtractIndentedCodeBlocks(doc)[k]
            /\ IndexOfFrom(doc, <<"\n">> \o Fence, 1) = 0 =>
                  blocks = ExtractIndentedCodeBlocks(doc)

\* A span whose content is 21 characters between four leading and two
\* trailing spaces is kept, as its 21 characters.
C23_Witness ==
    /\ blocksRet.calls = 1
    /\ \E n \in 1..Len(blocksRet.blocks) : \E k \in 1..Len(FenceMatches(doc, 1)) :
          /\ Len(blocksRet.blocks[n].content) = 21
          /\ Len(FenceMatches(doc, 1)[k].content) = 27
          /\ blocksRet.blocks[n].content = Trim(FenceMatches(doc, 1)[k].content)

\* A span of exactly 20 trimmed characters, with nothing returned.
C23_WitnessDiscarded ==
    /\ blocksRet.calls = 1
    /\ blocksRet.blocks = <<>>
    /\ \E k \in 1..Len(FenceMatches(doc, 1)) : Len(Trim(FenceMatches(doc, 1)[k].content)) = 20

(* --------------- documents whose only code is fenced (SpecFenced) ------- *)

\* C15: a document whose only code is fenced, every span with more than 20
\* characters of content, gives exactly one block per fenced span, in
\* source order, with the content of the span and the label declared on
\* its fence; a python span followed by a javascript span gives two blocks,
\* python then javascript.
C15_OneBlockPerFencedSpan ==
    blocksRet.calls = 1 =>
        LET spans  == KeptFenceMatches(doc, 1)
            blocks == blocksRet.blocks
        IN  /\ Len(blocks) = Len(spans)
            /\ \A n \in 1..Len(spans) :
                  /\ blocks[n].content = Trim(spans[n].content)
                  /\ spans[n].language # <<>> => blocks[n].language = spans[n].language

\* A python span followed by a javascript span, returned as three blocks.
C15_ThreeBlocks ==
    /\ blocksRet.calls = 1
    /\ LET spans == KeptFenceMatches(doc, 1)
       IN  /\ Len(spans) = 2
           /\ spans[1].language = <<"p", "y", "t", "h", "o", "n">>
           /\ spans[2].language = <<"j", "a", "v", "a", "s", "c", "r", "i", "p", "t">>
    /\ Len(blocksRet.blocks) = 3

(* ---------------- order of appearance (SpecOrder) ----------------------- *)

\* Claim C29: each scanner reports its blocks in order of appearance. The
\* blocks of extractMarkdownCodeBlocks are the kept fenced spans in document
\* order, each with the line of its opening fence: the startLine values are
\* strictly increasing and each span ends before the next one begins. The
\* startLine values of the blocks of extractIndentedCodeBlocks are strictly
\* increasing, and two consecutive blocks start at least 5 lines apart.
C29_OrderOfAppearance ==
    blocksRet.calls = 1 =>
        LET fenced   == ExtractMarkdownCodeBlocks(doc)
            spans    == KeptFenceMatches(doc, 1)
            indented == ExtractIndentedCodeBlocks(doc)
        IN  /\ Len(fenced) = Len(spans)
            /\ \A n \in 1..Len(fenced) :
                  /\ fenced[n].startLine = LineOfIndex(doc, spans[n].index)
                  /\ fenced[n].content = Trim(spans[n].content)
            /\ \A n \in 1..(Len(fenced) - 1) :
                  /\ fenced[n].startLine < fenced[n + 1].startLine
                  /\ spans[n].lastIndex <= spans[n + 1].index
            /\ \A n \in 1..(Len(indented) - 1) :
                  /\ indented[n].startLine < indented[n + 1].startLine
                  /\ indented[n].startLine + 5 <= indented[n + 1].startLine

\* A document with two fenced blocks and two indented blocks that start
\* exactly 5 lines apart.
C29_Witness ==
    /\ blocksRet.calls = 1
    /\ Len(ExtractMarkdownCodeBlocks(doc)) = 2
    /\ LET indented == ExtractIndentedCodeBlocks(doc)
       IN  /\ Len(indented) = 2
           /\ indented[2].startLine = indented[1].startLine + 5

\* A document with two fenced blocks, the second span beginning right after
\* the line end that follows the first.
C29_WitnessFenced ==
    /\ blocksRet.calls = 1
    /\ LET spans == KeptFenceMatches(doc, 1)
       IN  /\ Len(spans) = 2
           /\ spans[2].index = spans[1].lastIndex + 1
    /\ Len(ExtractMarkdownCodeBlocks(doc)) = 2

(* ---------------- processFile of a sequential caller (SpecEngine) ------- *)

\* The step is a processFile call, with the read ending as readOk says.
IsProcessFileStep(readOk) ==
    /\ fileRet'.calls = fileRet.calls + 1
    /\ fileRet'.readOk = readOk

\* Claim C4: every successful processFile result has one file descriptor
\* per extracted block, index-aligned: files, blocksExtracted,
\* metadata.totalBlocks and metadata.codeFiles have the length of the block
\* list, files[i] has the content, language and hash of the i-th block, and
\* metadata.codeFiles[i] the fileName, language and hash of files[i].
C4_FilesAlignedWithBlocks ==
    (fileRet.calls > 0 /\ "topic" \in DOMAIN fileRet.value) =>
        LET result == fileRet.value
            blocks == ExtractCodeBlocks(Catalog[fileRet.file].text)
        IN  /\ Len(result.files) = Len(blocks)
            /\ result.blocksExtracted = Len(blocks)
            /\ result.metadata.totalBlocks = Len(blocks)
            /\ Len(result.metadata.codeFiles) = Len(blocks)
            /\ \A i \in 1..Len(blocks) :
                  /\ result.files[i].content = blocks[i].content
                  /\ result.files[i].language = blocks[i].language
                  /\ result.files[i].hash = blocks[i].hash
                  /\ result.metadata.codeFiles[i].fileName = result.files[i].fileName
                  /\ result.metadata.codeFiles[i].language = result.files[i].language
                  /\ result.metadata.codeFiles[i].hash = result.files[i].hash

\* A successful result with two blocks of different content.
C4_Witness ==
    /\ fileRet.calls > 0
    /\ "topic" \in DOMAIN fileRet.value
    /\ Len(fileRet.value.files) = 2
    /\ fileRet.value.files[1].content # fileRet.value.files[2].content

C6_ReadFailureContained ==
    [][IsProcessFileStep(FALSE) =>
          /\ ~fileRet'.rejected
          /\ DOMAIN fileRet'.value = {"error"}
          /\ stats'.filesProcessed = stats.filesProcessed
          /\ stats'.codeBlocksFound = stats.codeBlocksFound
          /\ stats'.languagesDetected = stats.languagesDetected
          /\ stats'.topicsCreated = stats.topicsCreated]_vars

\* A failed read after a document has been counted.
C6_Witness ==
    /\ fileRet.calls > 0
    /\ ~fileRet.readOk
    /\ "error" \in DOMAIN fileRet.value
    /\ stats.filesProcessed > 0

\* The readable documents of the catalog without any block.
HasNoBlocks(f) == ExtractCodeBlocks(Catalog[f].text) = <<>>

\* Claim C8: a readable document that yields no block still counts: after
\* processFile on it, filesProcessed is one greater than before the call.
C8_EmptyDocumentCounted ==
    [][\A f \in 1..Len(Catalog) :
          (IsProcessFileStep(TRUE) /\ fileRet'.file = f /\ HasNoBlocks(f))
          => stats'.filesProcessed = stats.filesProcessed + 1]_vars

\* Claim C9: for a readable document without any block processFile returns
\* an object with the message "No code blocks found" and nothing else, and
\* codeBlocksFound, languagesDetected and topicsCreated are unchanged.
C9_NoBlocksMessage ==
    [][\A f \in 1..Len(Catalog) :
          (IsProcessFileStep(TRUE) /\ fileRet'.file = f /\ HasNoBlocks(f))
          => /\ ~fileRet'.rejected
             /\ fileRet'.value = [message |-> "No code blocks found"]
             /\ stats'.codeBlocksFound = stats.codeBlocksFound
             /\ stats'.languagesDetected = stats.languagesDetected
             /\ stats'.topicsCreated = stats.topicsCreated]_vars

\* A document without blocks has been processed after one with blocks.
C9_Witness ==
    /\ fileRet.calls > 0
    /\ fileRet.readOk
    /\ "message" \in DOMAIN fileRet.value
    /\ stats.codeBlocksFound > 0
    /\ stats.topicsCreated # <<>>

\* Claim C11: between two reset() calls, whatever the outcomes of the
\* processFile calls, filesProcessed and codeBlocksFound never decrease and
\* languagesDetected and topicsCreated never lose an element: every step
\* that is a processFile or an extractCodeBlocks call keeps or grows them.
C11_StatsMonotone ==
    [][(fileRet'.calls # fileRet.calls \/ blocksRet'.calls # blocksRet.calls) =>
          /\ stats'.filesProcessed >= stats.filesProcessed
          /\ stats'.codeBlocksFound >= stats.codeBlocksFound
          /\ \A n \in 1..Len(stats.languagesDetected) :
                \E k \in 1..Len(stats'.languagesDetected) :
                    stats'.languagesDetected[k] = stats.languagesDetected[n]
          /\ \A n \in 1..Len(stats.topicsCreated) :
                \E k \in 1..Len(stats'.topicsCreated) :
                    stats'.topicsCreated[k] = stats.topicsCreated[n]]_vars

\* Two documents with blocks have been counted, the second with other
\* languages than the first, and a failed read came after them.
C11_Witness ==
    /\ stats.filesProcessed = 2
    /\ Len(stats.languagesDetected) >= 3
    /\ Len(stats.topicsCreated) = 2
    /\ fileRet.calls = 3
    /\ ~fileRet.readOk

\* The labels the classifier can return by matching, and its fallback.
ClassifierLabels == {CandidateOrder[k] : k \in 1..Len(CandidateOrder)} \cup {<<"t", "x", "t">>}

\* The tags declared on the kept fenced spans of a text.
DeclaredTags(content) ==
    LET matches == KeptFenceMatches(content, 1)
    IN  {matches[n].language : n \in {k \in 1..Len(matches) : matches[k].language # <<>>}}

\* C17 as stated: every block returned by extractCodeBlocks has a language
\* from python, javascript, java, c, cpp, html, css, sql, bash, dockerfile,
\* json, yaml, xml or txt, and so has every entry of languagesDetected.
C17_ClosedLabelSet ==
    /\ \A n \in 1..Len(blocksRet.blocks) : blocksRet.blocks[n].language \in ClassifierLabels
    /\ \A n \in 1..Len(stats.languagesDetected) : stats.languagesDetected[n] \in ClassifierLabels

\* C17, amended: the language of a returned block is the tag declared on
\* its opening fence when there is one, whatever word it is, and otherwise
\* one of the thirteen labels or txt; languagesDetected holds only those
\* labels and tags declared in the documents.
C17_DeclaredOrClassifierLabel ==
    /\ LET matches == KeptFenceMatches(doc, 1)
           blocks  == blocksRet.blocks
       IN  \A n \in 1..Len(blocks) :
               IF n <= Len(matches) /\ matches[n].language # <<>>
               THEN blocks[n].language = matches[n].language
               ELSE blocks[n].language \in ClassifierLabels
    /\ \A n \in 1..Len(stats.languagesDetected) :
          \/ stats.languagesDetected[n] \in ClassifierLabels
          \/ \E f \in 1..Len(Catalog) : stats.languagesDetected[n] \in DeclaredTags(Catalog[f].text)

\* A block labelled JS by its fence has been returned next to a block the
\* classifier labelled, and JS has entered languagesDetected.
C17_Witness ==
    /\ \E n \in 1..Len(blocksRet.blocks) : blocksRet.blocks[n].language = <<"J", "S">>
    /\ \E n \in 1..Len(blocksRet.blocks) : blocksRet.blocks[n].language \in ClassifierLabels
    /\ \E n \in 1..Len(stats.languagesDetected) : stats.languagesDetected[n] = <<"J", "S">>

\* C26: whatever processFile and reset calls were made on the extractor,
\* codeBlocksFound is at least filesProcessed, topicsCreated has at most
\* filesProcessed elements, languagesDetected at most codeBlocksFound, and
\* topicsCreated is empty exactly when filesProcessed is 0.
C26_StatsBounds ==
    /\ stats.codeBlocksFound >= stats.filesProcessed
    /\ Cardinality(Range(stats.topicsCreated)) <= stats.filesProcessed
    /\ Cardinality(Range(stats.languagesDetected)) <= stats.codeBlocksFound
    /\ (stats.topicsCreated = <<>>) <=> (stats.filesProcessed = 0)

\* The same document was processed twice: two files counted, one topic,
\* fewer languages than blocks.
C26_Witness ==
    /\ fileRet.calls >= 2
    /\ stats.filesProcessed = 2
    /\ Len(stats.topicsCreated) = 1
    /\ Len(stats.languagesDetected) < stats.codeBlocksFound

\* Claim C27: every successful processFile result (one that has files) has
\* a non-empty topic, whatever the document text and the file name, also
\* when the first matching heading consists only of punctuation or symbols.
C27_TopicNonEmpty ==
    (fileRet.calls > 0 /\ "files" \in DOMAIN fileRet.value) =>
        fileRet.value.topic # <<>>

(* ---------------- stats and the callers of getStats (SpecStats) --------- *)

\* The step is a processFile call that returned a result with files.
IsSuccessStep ==
    /\ fileRet'.calls = fileRet.calls + 1
    /\ "files" \in DOMAIN fileRet'.value

\* The step is a reset call.
IsResetStep ==
    /\ stats' = EmptyStats
    /\ UNCHANGED <<fileRet, blocksRet, statsRet>>

\* Claim C28: stats is changed only by the success path of processFile and
\* by reset. A step that changes any field of stats is one of the two; an
\* extractCodeBlocks call, with the scanners, looksLikeCode and all it
\* calls, a processFile call that ends without files, a getStats call and a
\* push to an array that getStats returned leave all four fields as they
\* were, and the push is seen in the returned object only.
C28_StatsFrame ==
    [][/\ stats' # stats => (IsSuccessStep \/ IsResetStep)
       /\ blocksRet'.calls # blocksRet.calls => stats' = stats
       /\ (fileRet'.calls # fileRet.calls /\ ~IsSuccessStep) => stats' = stats
       /\ statsRet'.calls # statsRet.calls =>
             /\ stats' = stats
             /\ statsRet'.value.languagesDetected.items = stats.languagesDetected
             /\ statsRet'.value.topicsCreated.items = stats.topicsCreated
       /\ statsRet'.pushes # statsRet.pushes =>
             /\ stats' = stats
             /\ statsRet'.value # statsRet.value
      ]_vars

\* A file was processed, getStats was called, and the caller pushed a
\* string to the returned topicsCreated, which now differs from the
\* extractor's.
C28_Witness ==
    /\ stats.filesProcessed = 1
    /\ statsRet.calls = 1
    /\ statsRet.pushes = 1
    /\ Len(statsRet.value.topicsCreated.items) = Len(stats.topicsCreated) + 1

(* ---------------- the page (Spec, FairSpec) ------------------------------ *)

\* The results of activation r name the first n files of its snapshot, in
\* the order of the snapshot.
ResultsFollowSnapshot(r, n) ==
    /\ Len(runs[r].results) = n
    /\ \A i \in 1..n : runs[r].results[i].file = FileAt(runs[r].files[i]).name

\* Claim C7: a run that processFiles starts with n >= 1 selected files
\* eventually completes with exactly n result entries, one per file selected
\* when the run started and in selection order, whatever the outcome of each
\* document; no document sends the run to the error screen, and files added
\* or removed during the run do not change its list.
C7_BatchCompletes ==
    /\ [][\A r \in 1..MaxRuns :
             /\ (runs[r].pc = "idle" /\ runs'[r].pc # "idle")
                   => (runs'[r].files = selectedFiles /\ Len(selectedFiles) >= 1)
             /\ runs[r].pc # "idle" => runs'[r].files = runs[r].files]_vars
    /\ [](\A r \in 1..MaxRuns :
             /\ runs[r].pc # "failed"
             /\ runs[r].pc = "read" => ResultsFollowSnapshot(r, runs[r].processed)
             /\ runs[r].pc \in {"timer", "done"}
                   => ResultsFollowSnapshot(r, Len(runs[r].files)))
    /\ \A r \in 1..MaxRuns : runs[r].pc = "read" ~> runs[r].pc = "done"

\* A completed run of two files, the first unreadable and the second with
\* blocks, whose selection has changed since the run started.
C7_Witness ==
    \E r \in 1..MaxRuns :
        /\ runs[r].pc = "done"
        /\ Len(runs[r].results) = 2
        /\ "error" \in DOMAIN runs[r].results[1].result
        /\ "topic" \in DOMAIN runs[r].results[2].result
        /\ selectedFiles # runs[r].files

\* Claim C10: documents are processed one at a time on the shared
\* extractor: at no time are two processFile calls pending, whatever the
\* interleaving of clicks and read completions.
C10_OneProcessFileAtATime ==
    Cardinality({r \in 1..MaxRuns : runs[r].pc = "read"}) <= 1

\* C19: a reset leaves the stats reporting filesProcessed 0, codeBlocksFound
\* 0 and no languages or topics, whatever they held, and leaves outputName
\* and the results already returned as they are; every processFiles run
\* starts with such a reset, so its stats start without the documents of
\* earlier runs. The two callers of reset are a processFiles activation
\* leaving idle and New Extraction discarding the shown results.
C19_ResetClearsStatsOnly ==
    [][/\ (\E r \in 1..MaxRuns : runs[r].pc = "idle" /\ runs'[r].pc # "idle") =>
             /\ stats'.filesProcessed = 0
             /\ stats'.codeBlocksFound = 0
             /\ stats'.languagesDetected = <<>>
             /\ stats'.topicsCreated = <<>>
             /\ outputName' = outputName
             /\ extractionResults' = extractionResults
             /\ \A q \in 1..MaxRuns : runs[q].pc # "idle" => runs'[q] = runs[q]
       /\ (extractionResults.assigned /\ ~extractionResults'.assigned) =>
             /\ stats'.filesProcessed = 0
             /\ stats'.codeBlocksFound = 0
             /\ stats'.languagesDetected = <<>>
             /\ stats'.topicsCreated = <<>>
             /\ outputName' = outputName
             /\ runs' = runs]_vars

\* A second run has just started after a first one that found blocks was
\* shown: the stats are empty again, the results of the first run and the
\* name typed into the outputName input are still there.
C19_Witness ==
    /\ runs[1].pc = "done"
    /\ \E n \in 1..Len(runs[1].results) : "files" \in DOMAIN runs[1].results[n].result
    /\ runs[2].pc = "read" /\ runs[2].processed = 0
    /\ extractionResults.assigned /\ extractionResults.results = runs[1].results
    /\ stats = EmptyStats
    /\ outputName # DefaultOutputName

\* The sum of blocksExtracted over the entries of results from index n on
\* that have files.
RECURSIVE BlocksExtractedFrom(_, _)
BlocksExtractedFrom(results, n) ==
    IF n > Len(results) THEN 0
    ELSE (IF "files" \in DOMAIN results[n].result THEN results[n].result.blocksExtracted ELSE 0)
             + BlocksExtractedFrom(results, n + 1)

\* C20: when a run finishes and its results are shown, the stats that
\* showResults reads agree with them: filesProcessed is the number of
\* entries with files, codeBlocksFound the sum of their blocksExtracted,
\* topicsCreated the set of their topics and languagesDetected the set of
\* the languages of their files, whatever the user did while the run was
\* suspended.
C20_StatsAgreeWithResults ==
    [][(\E r \in 1..MaxRuns : runs[r].pc = "timer" /\ runs'[r].pc = "done") =>
          LET results   == extractionResults'.results
              withFiles == {n \in 1..Len(results) : "files" \in DOMAIN results[n].result}
          IN  /\ extractionResults'.assigned
              /\ stats'.filesProcessed = Cardinality(withFiles)
              /\ stats'.codeBlocksFound = BlocksExtractedFrom(results, 1)
              /\ Range(stats'.topicsCreated) = {results[n].result.topic : n \in withFiles}
              /\ Range(stats'.languagesDetected) =
                     UNION {{results[n].result.files[i].language :
                                 i \in 1..Len(results[n].result.files)} : n \in withFiles}]_vars

\* The results of a run that extracted blocks are shown while the stats
\* are empty.
C20_ShownWithEmptyStats ==
    /\ extractionResults.assigned
    /\ \E n \in 1..Len(extractionResults.results) :
          "files" \in DOMAIN extractionResults.results[n].result
    /\ \E r \in 1..MaxRuns : runs[r].pc = "done" /\ runs[r].results = extractionResults.results
    /\ \A r \in 1..MaxRuns : runs[r].pc \in {"idle", "done"}
    /\ stats = EmptyStats

====
